---- MODULE Spec2Model ----
(***************************************************************************)
(* Emotion analysis system: the persistence adapters (FirebaseManager and  *)
(* MockFirebaseManager), the orchestrator CompleteEmotionSystem and the    *)
(* POST /analyze handler.                                                  *)
(*                                                                         *)
(* Python dicts are functions whose domain is the set of keys; a missing   *)
(* key is a key outside the domain.  Real-valued scores are integers in    *)
(* tenths (0.5 is 5).  The wall clock is a tick counter; strftime with     *)
(* '%Y%m%d_%H%M%S' keeps the whole second of a tick.                       *)
(***************************************************************************)
EXTENDS Integers, Sequences, FiniteSets, TLC

\* ------------------------------------------------------------------ bounds
MaxTime == 3
TicksPerSecond == 2
MaxLimit == 2
MaxEntries == 2
MaxRuns == 2

Users == {"u1", "u2"}

\* ------------------------------------------------------------ dict helpers
EmptyDict == [k \in {} |-> 0]

\* dict.get(key, default)
Get(d, k, default) == IF k \in DOMAIN d THEN d[k] ELSE default

\* Python None where a string is expected
None == "None"

\* Python None where a dict is expected
NoneValue == [is_none |-> TRUE]

\* a Python float where a dict may stand as well, in tenths
Float(n) == [float |-> n]
IsFloat(v) == DOMAIN v = {"float"}

\* truth value of a dict-or-None
Truthy(d) == d # NoneValue /\ DOMAIN d # {}

VARIABLES
    now,            \* wall clock, in ticks
    mgr_kind,       \* class of the adapter object in use
    initialized,    \* adapter.initialized
    fb_docs,        \* Firestore: users/{user_id}/analyses/{analysis_id}
    mock_exists,    \* os.path.exists(local_storage)
    mock_data,      \* content of the local JSON file: user_id -> list
    ret,            \* the most recent adapter call and what it returned
    pc,             \* position of run_complete_analysis
    caller,         \* who called the run in progress: "main" or "api"
    sys_user,       \* CompleteEmotionSystem.user_id
    collected_data, \* CompleteEmotionSystem.collected_data
    analysis_result,\* CompleteEmotionSystem.analysis_result
    history_data,   \* CompleteEmotionSystem.history_data
    system_health,  \* CompleteEmotionSystem.system_health
    results,        \* the stages map of the run in progress
    stage_log,      \* the run in progress: stages started, with their outcome
    logged_errors,  \* the run in progress: error messages of safe_execute
    report,         \* what the last run returned
    runs,           \* number of runs started so far
    emotion_system, \* api_server.emotion_system is set
    response,       \* the last AnalysisResponse of POST /analyze
    current_metrics,   \* PerformanceMonitor.current_metrics: operation_id -> metric
    metrics_history,   \* PerformanceMonitor.metrics_history, a deque
    total_operations,  \* PerformanceMonitor.system_stats['total_operations']
    wrappers           \* the calls of a monitor_performance wrapper: its
                       \* operation_id, and whether it has called end_operation

store_vars == <<now, mgr_kind, initialized, fb_docs, mock_exists, mock_data, ret>>

run_vars == <<pc, caller, sys_user, collected_data, analysis_result,
              history_data, system_health, results, stage_log, logged_errors,
              report, runs,
              emotion_system, response>>

monitor_vars == <<current_metrics, metrics_history, total_operations, wrappers>>

vars == <<store_vars, run_vars, monitor_vars>>

\* ------------------------------------------------------------------ inputs
\* analysis records a caller hands to save_emotion_analysis for user u:
\* two complete records as built by _analyze_emotions, one record without
\* user_id, analysis_date and calendar section.
RecordPositive(u) ==
    [analysis_date |-> "2025-01-01 10:00:00", user_id |-> u,
     youtube_analysis |-> [total_channels |-> 2, total_liked |-> 1],
     calendar_analysis |-> [fatigue_index |-> [num |-> 3, den |-> 10], stress_level |-> "low"],
     overall_emotion |-> [emotion_score |-> 5, emotion_state |-> "very_positive"]]

RecordNegative(u) ==
    [analysis_date |-> "2025-01-02 10:00:00", user_id |-> u,
     youtube_analysis |-> [total_channels |-> 1, total_liked |-> 0],
     calendar_analysis |-> [fatigue_index |-> [num |-> 26, den |-> 10], stress_level |-> "high"],
     overall_emotion |-> [emotion_score |-> -5, emotion_state |-> "negative"]]

RecordPartial ==
    [youtube_analysis |-> [total_channels |-> 0, total_liked |-> 0],
     overall_emotion |-> [emotion_score |-> -1, emotion_state |-> "neutral"]]

AnalysisInputs(u) == {RecordPositive(u), RecordNegative(u), RecordPartial}

\* datetime.now().strftime('%Y%m%d_%H%M%S'): the whole second of the tick;
\* analysis_id = f"analysis_{timestamp}" is determined by it.
AnalysisId(t) == t \div TicksPerSecond

\* --------------------------------------------------------- FirebaseManager
\* save_data built by FirebaseManager.save_emotion_analysis; the timestamp
\* field is firestore.SERVER_TIMESTAMP, resolved at the write.
FirebaseSaveData(u, data, t) ==
    [user_id |-> u,
     analysis_id |-> AnalysisId(t),
     timestamp |-> t,
     analysis_date |-> Get(data, "analysis_date", None),
     youtube_analysis |-> Get(data, "youtube_analysis", EmptyDict),
     calendar_analysis |-> Get(data, "calendar_analysis", EmptyDict),
     overall_emotion |-> Get(data, "overall_emotion", EmptyDict),
     data_source |-> "emotion_analysis_system",
     version |-> "1.0"]

\* doc_ref.set(save_data) on users/{u}/analyses/{analysis_id}: creates the
\* document or replaces the one that has this id.
DocumentSet(coll, id, doc) == (id :> doc) @@ coll

\* the ids of a collection, ordered by the documents' timestamp, descending
RECURSIVE OrderByTimestampDesc(_, _)
OrderByTimestampDesc(coll, ids) ==
    IF ids = {} THEN <<>>
    ELSE LET top == CHOOSE i \in ids :
                        \A j \in ids : coll[j].timestamp <= coll[i].timestamp
         IN  <<coll[top]>> \o OrderByTimestampDesc(coll, ids \ {top})

\* the first n elements of a sequence
Take(s, n) == SubSeq(s, 1, IF n < Len(s) THEN n ELSE Len(s))

\* the elements of a sequence, last first
Reverse(s) == [i \in 1..Len(s) |-> s[Len(s) + 1 - i]]

\* the query with direction=ASCENDING
FirestoreQueryAscending(coll, limit) ==
    Take(Reverse(OrderByTimestampDesc(coll, DOMAIN coll)), limit)

\* analyses_ref.order_by('timestamp', DESCENDING).limit(limit), streamed
\* into a list
FirestoreQuery(coll, limit) ==
    Take(OrderByTimestampDesc(coll, DOMAIN coll), limit)

\* number of documents / entries held by the store in use
StoredCount ==
    IF mgr_kind = "FirebaseManager"
    THEN Cardinality({<<u, i>> \in Users \X (0..AnalysisId(MaxTime)) :
                          i \in DOMAIN fb_docs[u]})
    ELSE Cardinality({<<u, k>> \in Users \X (1..(MaxEntries + 1)) :
                          u \in DOMAIN mock_data /\ k \in DOMAIN mock_data[u]})

\* FirebaseManager.initialize_firebase: fails when the library, the service
\* account key or the client cannot be had.
FirebaseInitialize(ok) ==
    /\ mgr_kind = "FirebaseManager"
    /\ pc = "idle"
    /\ caller = "main"
    /\ initialized' = (initialized \/ ok)
    /\ UNCHANGED <<now, mgr_kind, fb_docs, mock_exists, mock_data, ret>>
    /\ UNCHANGED run_vars
    /\ UNCHANGED monitor_vars

\* FirebaseManager.save_emotion_analysis(u, data) at instant t; vendor_ok is
\* whether the Firestore write goes through (an exception makes the method
\* return None).  ok: an analysis_id was returned; docs: the store afterwards.
SaveEmotionAnalysis(u, data, t, vendor_ok) ==
    IF initialized /\ vendor_ok
    THEN [ok |-> TRUE, id |-> AnalysisId(t),
          docs |-> [fb_docs EXCEPT ![u] =
                        DocumentSet(@, AnalysisId(t), FirebaseSaveData(u, data, t))]]
    ELSE [ok |-> FALSE, id |-> AnalysisId(t), docs |-> fb_docs]

\* FirebaseManager.get_user_history(u, limit); a failing query returns [].
GetUserHistory(u, limit, vendor_ok) ==
    IF initialized /\ vendor_ok THEN FirestoreQuery(fb_docs[u], limit) ELSE <<>>

\* a caller invokes save_emotion_analysis on the FirebaseManager
FirebaseSave(u, data, vendor_ok) ==
    /\ mgr_kind = "FirebaseManager"
    /\ pc = "idle"
    /\ \/ AnalysisId(now) \in DOMAIN fb_docs[u]
       \/ StoredCount < MaxEntries
    /\ LET r == SaveEmotionAnalysis(u, data, now, vendor_ok)
       IN  /\ fb_docs' = r.docs
           /\ ret' = [op |-> "save", user |-> u, data |-> data,
                      ok |-> r.ok, id |-> r.id]
    /\ UNCHANGED <<now, mgr_kind, initialized, mock_exists, mock_data>>
    /\ UNCHANGED run_vars
    /\ UNCHANGED monitor_vars

\* a caller invokes get_user_history on the FirebaseManager
FirebaseGetHistory(u, limit, vendor_ok) ==
    /\ mgr_kind = "FirebaseManager"
    /\ pc = "idle"
    /\ ret' = [op |-> "get", user |-> u, limit |-> limit,
               ok |-> initialized /\ vendor_ok,
               value |-> GetUserHistory(u, limit, vendor_ok)]
    /\ UNCHANGED <<now, mgr_kind, initialized, fb_docs, mock_exists, mock_data>>
    /\ UNCHANGED run_vars
    /\ UNCHANGED monitor_vars

\* ----------------------------------------------------- MockFirebaseManager
\* {'analysis_id': ..., 'timestamp': ..., **analysis_data}: keys of the
\* record replace the two leading keys when they collide.
MockSaveEntry(data, t) ==
    data @@ [analysis_id |-> AnalysisId(t), timestamp |-> t]

\* data[user_id].append(save_entry), creating the user's list when missing
MockAppend(file, u, entry) ==
    IF u \in DOMAIN file
    THEN [file EXCEPT ![u] = Append(@, entry)]
    ELSE (u :> <<entry>>) @@ file

\* the Python slice s[-n:]
SliceLast(s, n) ==
    IF n = 0 \/ n >= Len(s) THEN s
    ELSE SubSeq(s, Len(s) - n + 1, Len(s))

\* user_data[-limit:] if user_data else []
MockQuery(file, u, limit) ==
    LET user_data == Get(file, u, <<>>)
    IN  IF user_data # <<>> THEN SliceLast(user_data, limit) ELSE <<>>

\* MockFirebaseManager.initialize_firebase
MockInitialize ==
    /\ mgr_kind = "MockFirebaseManager"
    /\ initialized' = TRUE
    /\ UNCHANGED <<now, mgr_kind, fb_docs, mock_exists, mock_data, ret>>
    /\ UNCHANGED run_vars
    /\ UNCHANGED monitor_vars

\* MockFirebaseManager.save_emotion_analysis(u, data); io_ok is whether the
\* file can be read and written (an exception makes the method return None).
MockSave(u, data, io_ok) ==
    /\ mgr_kind = "MockFirebaseManager"
    /\ StoredCount < MaxEntries
    /\ IF io_ok
       THEN /\ mock_data' = MockAppend(IF mock_exists THEN mock_data ELSE EmptyDict,
                                       u, MockSaveEntry(data, now))
            /\ mock_exists' = TRUE
            /\ ret' = [op |-> "save", user |-> u, data |-> data,
                       ok |-> TRUE, id |-> AnalysisId(now)]
       ELSE /\ UNCHANGED <<mock_data, mock_exists>>
            /\ ret' = [op |-> "save", user |-> u, data |-> data,
                       ok |-> FALSE, id |-> AnalysisId(now)]
    /\ UNCHANGED <<now, mgr_kind, initialized, fb_docs>>
    /\ UNCHANGED run_vars
    /\ UNCHANGED monitor_vars

\* MockFirebaseManager.get_user_history(u, limit)
MockGetHistory(u, limit, io_ok) ==
    /\ mgr_kind = "MockFirebaseManager"
    /\ ret' = [op |-> "get", user |-> u, limit |-> limit,
               ok |-> io_ok,
               value |-> IF mock_exists /\ io_ok
                         THEN MockQuery(mock_data, u, limit)
                         ELSE <<>>]
    /\ UNCHANGED <<now, mgr_kind, initialized, fb_docs, mock_exists, mock_data>>
    /\ UNCHANGED run_vars
    /\ UNCHANGED monitor_vars

\* the wall clock advances (it is read between the operations)
Tick ==
    /\ pc = "idle"
    /\ now < MaxTime
    /\ now' = now + 1
    /\ UNCHANGED <<mgr_kind, initialized, fb_docs, mock_exists, mock_data, ret>>
    /\ UNCHANGED run_vars
    /\ UNCHANGED monitor_vars

\* ------------------------------------------------------ collected records
SubscriptionLists ==
    {<<[channel_name |-> "healing music", channel_id |-> "c1",
              subscribed_at |-> "2025-01-01"]>>}

LikedLists ==
    {<<[title |-> "stress relief", video_id |-> "v1", channel |-> "c1",
        published_at |-> "2025-01-01"]>>}

\* start_time is the hour of 'HH:MM', or AllDay for the all-day marker
AllDay == -1

EventLists ==
    {<<[title |-> "meeting", start_date |-> "2025-01-02", start_time |-> 23,
        description |-> "", location |-> ""]>>}

\* the outcome of a call: an exception, or a returned value
Raised == [raised |-> TRUE]
Returned(v) == [value |-> v, raised |-> FALSE]

\* ------------------------------------------------------------ collectors
\* what a fetch operation hands back: a list, or None where the function
\* ends without a return statement
ListValue(items) == [value |-> items, type |-> "list"]
NoneReturn == [type |-> "NoneType"]

\* YouTubeCollector.get_subscriptions; vendor_ok: request.execute() and the
\* reading of the response do not raise.  The except branch prints and
\* falls off the end of the function.
GetSubscriptions(vendor_ok, items) ==
    IF vendor_ok THEN ListValue(items) ELSE NoneReturn

\* YouTubeCollector.get_liked_videos
GetLikedVideos(vendor_ok, items) ==
    IF vendor_ok THEN ListValue(items) ELSE ListValue(<<>>)

\* CalendarCollector.get_recent_events
GetRecentEvents(vendor_ok, items) ==
    IF vendor_ok THEN ListValue(items) ELSE ListValue(<<>>)

\* ------------------------------------------------------------ collection
\* date -> number of events on that date
DailyCounts(events) ==
    [d \in {events[i].start_date : i \in DOMAIN events} |->
        Cardinality({i \in DOMAIN events : events[i].start_date = d})]

\* the largest value of a non-empty dict of numbers
MaxValue(f) == CHOOSE m \in {f[k] : k \in DOMAIN f} : \A k \in DOMAIN f : f[k] <= m

\* CalendarCollector.analyze_schedule_density; avg_per_day is the fraction
\* total events / days with events
AnalyzeScheduleDensity(events) ==
    IF events = <<>> THEN EmptyDict
    ELSE LET daily_counts == DailyCounts(events)
             total_events == Len(events)
             total_days == Cardinality(DOMAIN daily_counts)
         IN  [daily_counts |-> daily_counts,
              avg_per_day |-> [num |-> total_events, den |-> total_days],
              max_events |-> MaxValue(daily_counts),
              fatigue_level |-> IF total_events > 5 * total_days THEN "high"
                                ELSE IF total_events > 3 * total_days THEN "medium"
                                ELSE "low"]

\* the calls collect_all_data makes on its two collectors, in the order it
\* makes them; a get_subscriptions that returns None ends them, since
\* len(subscriptions) raises
CollectAllDataCalls(yt_connect, subs_ok, cal_connect) ==
    LET youtube == IF yt_connect
                   THEN <<"youtube.connect", "youtube.get_subscriptions",
                          "youtube.get_liked_videos">>
                   ELSE <<"youtube.connect">>
        calendar == IF cal_connect
                    THEN <<"calendar.connect", "calendar.get_recent_events",
                           "calendar.analyze_schedule_density">>
                    ELSE <<"calendar.connect">>
    IN  IF yt_connect /\ ~subs_ok THEN youtube ELSE youtube \o calendar

\* collect_all_data with analysis_ready set when either collection has data
CollectAllDataEitherReady(u, t, yt_connect, subs_ok, subs, liked, cal_connect, events) ==
    IF yt_connect /\ ~subs_ok THEN Raised
    ELSE Returned([user_id |-> u, collection_date |-> t,
                   youtube_data |-> IF yt_connect
                                    THEN [subscriptions |-> subs, liked_videos |-> liked]
                                    ELSE EmptyDict,
                   calendar_data |-> IF cal_connect THEN [events |-> events]
                                     ELSE EmptyDict,
                   analysis_ready |-> (yt_connect \/ cal_connect)])

\* IntegratedCollector.collect_all_data.  yt_connect / cal_connect: the
\* collector's connect() returned True; subs_ok: get_subscriptions fetched
\* its list (it returns None when the vendor call fails, and len(None)
\* raises); get_liked_videos and get_recent_events return [] on failure.
CollectAllData(u, t, yt_connect, subs_ok, subs, liked, cal_connect, events) ==
    IF yt_connect /\ GetSubscriptions(subs_ok, subs).type # "list" THEN Raised
    ELSE LET youtube_data ==
                 IF yt_connect
                 THEN [subscriptions |-> subs, liked_videos |-> liked,
                       subscription_count |-> Len(subs), liked_count |-> Len(liked)]
                 ELSE EmptyDict
             calendar_data ==
                 IF cal_connect
                 THEN [events |-> events,
                       schedule_analysis |-> AnalyzeScheduleDensity(events),
                       event_count |-> Len(events)]
                 ELSE EmptyDict
         IN  Returned([user_id |-> u, collection_date |-> t,
                       youtube_data |-> youtube_data,
                       calendar_data |-> calendar_data,
                       analysis_ready |-> (DOMAIN youtube_data # {}
                                           /\ DOMAIN calendar_data # {})])

\* ------------------------------------------------------------ safe_execute
\* safe_execute(func, default_return): the value func returns, or
\* default_return when func raises
SafeExecute(outcome, default_return) ==
    IF outcome.raised THEN default_return ELSE outcome.value

\* ----------------------------------------------------------- the engine
\* emotion_keywords and interest_categories of __init__, a part of each
\* list, the Korean keywords written as English glosses: healing for 힐링,
\* music for 음악, stress for 스트레스, study for 공부, meeting for 회의,
\* anime for 애니
emotion_keywords ==
    [positive |-> {"healing", "music", "jazz"},
     negative |-> {"stress"},
     neutral |-> {"study", "meeting"}]

interest_categories ==
    [entertainment |-> {"music", "jazz", "anime"},
     lifestyle |-> {"healing"},
     education |-> {"study"},
     social |-> {"meeting"}]

\* `keyword in name` over the names the inputs use: the keywords that are
\* substrings of the lower-cased name
KeywordsIn(name) ==
    CASE name = "healing music" -> {"healing", "music"}
      [] name = "stress relief" -> {"stress"}
      [] name = "anime" -> {"anime"}
      [] name = "study jazz" -> {"study", "jazz"}
      [] OTHER -> {}

\* the number of `if keyword in name` tests of one keyword list that hold
Hits(name, keywords) == Cardinality(KeywordsIn(name) \cap keywords)

\* the date datetime.now() falls on while the engine is called
Today == 8

\* _calculate_days_ago over 'YYYY-MM-DD' strings of January 2025; a string
\* that does not parse gives 0, and a date after today gives 0
CalculateDaysAgo(date_str) ==
    LET day == CASE date_str = "2025-01-01" -> 1
                 [] date_str = "2025-01-07" -> 7
                 [] date_str = "2025-01-09" -> 9
                 [] OTHER -> Today
        days_ago == Today - day
    IN  IF days_ago > 0 THEN days_ago ELSE 0

\* math.exp(-lambda_decay * days_ago) with lambda_decay = 0.1, in thousandths
\* rounded down, for days_ago 0..7
TimeWeight(days_ago) ==
    <<1000, 904, 818, 740, 670, 606, 548, 496>>[days_ago + 1]

\* the scores are kept in units of 1/2000, which makes time_weight * 1.5 an
\* integer
ScoreUnit == 2000

\* a score as the exact fraction num/den
Fraction(num, den) == [num |-> num, den |-> den]

\* what the loop over the subscriptions adds to the score of one keyword
\* list: time_weight for each keyword found in channel_name
RECURSIVE SubscriptionScore(_, _)
SubscriptionScore(subscriptions, keywords) ==
    IF subscriptions = <<>> THEN 0
    ELSE LET sub == Head(subscriptions)
             time_weight == TimeWeight(CalculateDaysAgo(sub.subscribed_at))
         IN  2 * time_weight * Hits(sub.channel_name, keywords)
             + SubscriptionScore(Tail(subscriptions), keywords)

\* what the loop over the liked videos adds: time_weight * 1.5 for each
\* keyword found in title
RECURSIVE LikedScore(_, _)
LikedScore(liked_videos, keywords) ==
    IF liked_videos = <<>> THEN 0
    ELSE LET video == Head(liked_videos)
             time_weight == TimeWeight(CalculateDaysAgo(video.published_at))
         IN  3 * time_weight * Hits(video.title, keywords)
             + LikedScore(Tail(liked_videos), keywords)

\* sum(scores.values())
RECURSIVE SumValues(_)
SumValues(scores) ==
    IF DOMAIN scores = {} THEN 0
    ELSE LET k == CHOOSE x \in DOMAIN scores : TRUE
         IN  scores[k] + SumValues([x \in DOMAIN scores \ {k} |-> scores[x]])

\* `if total > 0: scores = {k: v/total ...}`; scores left alone keep their
\* value in score units
Normalize(scores, total, guard) ==
    [k \in DOMAIN scores |->
        IF guard > 0 THEN Fraction(scores[k], total)
        ELSE Fraction(scores[k], ScoreUnit)]

\* the scores before the division: emotion_scores take the subscriptions and
\* the liked videos, interests the subscriptions only
RawEmotionScores(youtube_data) ==
    [emotion \in DOMAIN emotion_keywords |->
        SubscriptionScore(Get(youtube_data, "subscriptions", <<>>),
                          emotion_keywords[emotion])
        + LikedScore(Get(youtube_data, "liked_videos", <<>>),
                     emotion_keywords[emotion])]

RawInterests(youtube_data) ==
    [category \in DOMAIN interest_categories |->
        SubscriptionScore(Get(youtube_data, "subscriptions", <<>>),
                          interest_categories[category])]

\* analyze_youtube_emotions with the interests divided under the guard of
\* the emotion scores
AnalyzeYoutubeEmotionsOneGuard(youtube_data) ==
    LET emotion_scores == RawEmotionScores(youtube_data)
        interests == RawInterests(youtube_data)
        total_emotion == SumValues(emotion_scores)
        total_interest == SumValues(interests)
    IN  [total_channels |-> Len(Get(youtube_data, "subscriptions", <<>>)),
         total_liked |-> Len(Get(youtube_data, "liked_videos", <<>>)),
         emotion_scores |-> Normalize(emotion_scores, total_emotion, total_emotion),
         interests |-> Normalize(interests, total_interest, total_emotion)]

\* EmotionAnalysisEngine.analyze_youtube_emotions
AnalyzeYoutubeEmotions(youtube_data) ==
    LET emotion_scores == RawEmotionScores(youtube_data)
        interests == RawInterests(youtube_data)
        total_emotion == SumValues(emotion_scores)
        total_interest == SumValues(interests)
    IN  [total_channels |-> Len(Get(youtube_data, "subscriptions", <<>>)),
         total_liked |-> Len(Get(youtube_data, "liked_videos", <<>>)),
         emotion_scores |-> Normalize(emotion_scores, total_emotion, total_emotion),
         interests |-> Normalize(interests, total_interest, total_interest)]

\* the stress level decided with >= in place of >
StressLevelAtLeast(fatigue_index) ==
    IF fatigue_index.num >= 2 * fatigue_index.den THEN "high"
    ELSE IF fatigue_index.num >= fatigue_index.den THEN "medium"
    ELSE "low"

\* the stress level analyze_calendar_fatigue decides from its index:
\* `if fatigue_index > 2.0 ... elif fatigue_index > 1.0 ... else`
StressLevelOf(fatigue_index) ==
    IF fatigue_index.num > 2 * fatigue_index.den THEN "high"
    ELSE IF fatigue_index.num > fatigue_index.den THEN "medium"
    ELSE "low"

\* analyze_calendar_fatigue with the index made of the density term alone
AnalyzeCalendarFatigueDensityOnly(calendar_data) ==
    LET events == Get(calendar_data, "events", <<>>)
        index == IF events = <<>> THEN Fraction(0, 1)
                 ELSE Fraction(50 * Len(events),
                               100 * Cardinality(DOMAIN DailyCounts(events)))
    IN  [fatigue_index |-> index, stress_level |-> StressLevelOf(index)]

\* EmotionAnalysisEngine.analyze_calendar_fatigue.  The index
\*   0.5 * total/days + 0.3 * max_daily/10 + 0.2 * night/timed
\* is kept as the exact fraction num/den with den = 100 * days * timed.
AnalyzeCalendarFatigue(calendar_data) ==
    LET events == Get(calendar_data, "events", <<>>)
    IN  IF events = <<>>
        THEN [fatigue_index |-> [num |-> 0, den |-> 1], stress_level |-> "low"]
        ELSE LET daily_counts == DailyCounts(events)
                 timed == {i \in DOMAIN events : events[i].start_time # AllDay}
                 hour(i) == events[i].start_time
                 time_distribution ==
                     [morning |-> Cardinality({i \in timed : 6 <= hour(i) /\ hour(i) < 12}),
                      afternoon |-> Cardinality({i \in timed : 12 <= hour(i) /\ hour(i) < 18}),
                      evening |-> Cardinality({i \in timed : 18 <= hour(i) /\ hour(i) < 22}),
                      night |-> Cardinality({i \in timed : hour(i) >= 22 \/ hour(i) < 6})]
                 days == Cardinality(DOMAIN daily_counts)
                 max_daily_events == MaxValue(daily_counts)
                 total_timed == Cardinality(timed)
                 k == IF total_timed > 0 THEN total_timed ELSE 1
                 num == 50 * Len(events) * k + 3 * max_daily_events * days * k
                        + 20 * time_distribution.night * days
                 den == 100 * days * k
             IN  [fatigue_index |-> [num |-> num, den |-> den],
                  stress_level |-> StressLevelOf(Fraction(num, den)),
                  daily_counts |-> daily_counts,
                  time_distribution |-> time_distribution,
                  max_daily_events |-> max_daily_events]

\* the categories in the order the interests dict holds them
InterestOrder == <<"entertainment", "lifestyle", "education", "social">>

\* max(interests.items(), key=value): the first category no other exceeds
TopInterest(interests) ==
    LET Exceeds(a, b) == interests[a].num * interests[b].den
                             > interests[b].num * interests[a].den
        i == CHOOSE i \in DOMAIN InterestOrder :
                 /\ \A j \in DOMAIN InterestOrder :
                        ~Exceeds(InterestOrder[j], InterestOrder[i])
                 /\ \A j \in 1..(i - 1) :
                        Exceeds(InterestOrder[i], InterestOrder[j])
    IN  InterestOrder[i]

\* stress_impact, in tenths
StressImpact == [low |-> 1, high |-> 5, medium |-> 3]

\* the emotion state decided with >= in place of >
EmotionStateAtLeast(score) ==
    IF 10 * score.num >= 3 * score.den THEN "very_positive"
    ELSE IF 10 * score.num >= score.den THEN "positive"
    ELSE IF 10 * score.num >= -score.den THEN "neutral"
    ELSE IF 10 * score.num >= -3 * score.den THEN "somewhat_negative"
    ELSE "negative"

\* the emotion state decided from the score num/den by the chain
\* `> 0.3`, `> 0.1`, `> -0.1`, `> -0.3`, else; the states are 매우 긍정적,
\* 긍정적, 보통, 다소 부정적, 부정적
EmotionStateOf(score) ==
    IF 10 * score.num > 3 * score.den THEN "very_positive"
    ELSE IF 10 * score.num > score.den THEN "positive"
    ELSE IF 10 * score.num > -score.den THEN "neutral"
    ELSE IF 10 * score.num > -3 * score.den THEN "somewhat_negative"
    ELSE "negative"

\* EmotionAnalysisEngine.calculate_overall_emotion: emotion_score is
\* positive - negative - stress_impact as an exact fraction (mood_emoji and
\* recommendations follow emotion_state and are left out)
CalculateOverallEmotion(youtube_analysis, calendar_analysis) ==
    LET yt_emotions == youtube_analysis.emotion_scores
        yt_positive == Get(yt_emotions, "positive", Fraction(0, 1))
        yt_negative == Get(yt_emotions, "negative", Fraction(0, 1))
        stress_impact == StressImpact[calendar_analysis.stress_level]
        base_emotion ==
            IF yt_positive.den = yt_negative.den
            THEN Fraction(yt_positive.num - yt_negative.num, yt_positive.den)
            ELSE Fraction(yt_positive.num * yt_negative.den
                          - yt_negative.num * yt_positive.den,
                          yt_positive.den * yt_negative.den)
        stress_adjusted_emotion ==
            Fraction(10 * base_emotion.num - stress_impact * base_emotion.den,
                     10 * base_emotion.den)
    IN  [emotion_score |-> stress_adjusted_emotion,
         emotion_state |-> EmotionStateOf(stress_adjusted_emotion),
         top_interest |-> TopInterest(youtube_analysis.interests)]

\* ------------------------------------------------- CompleteEmotionSystem
\* the stages of run_complete_analysis, in the order of the `stages` list:
\* 데이터 수집, 감정 분석, Firebase 저장, 히스토리 분석, 트렌드 분석, 개인화 피드백
StageNames ==
    <<"data_collection", "emotion_analysis", "firebase_save",
      "history_analysis", "trend_analysis", "personal_feedback">>

\* the stages whose exception is re-raised by the stage loop
EssentialStages == {"data_collection", "emotion_analysis"}

\* the stages whose unsuccessful result is passed over by the stage loop
OptionalStages == {"history_analysis", "trend_analysis"}

\* limit of the history query of _analyze_history_safe
HistoryLimit == 10

\* number of history items _analyze_trends_safe averages
TrendWindow == 5

\* the position after a stage
NextPc(name) ==
    LET i == CHOOSE k \in DOMAIN StageNames : StageNames[k] = name
    IN  IF i < Len(StageNames) THEN StageNames[i + 1] ELSE "compile"

\* _collect_data_safe, given the outcome of collect_all_data
CollectDataSafe(outcome, old) ==
    LET data == SafeExecute(outcome,
                    [youtube |-> [subscriptions |-> <<>>, liked_videos |-> <<>>],
                     calendar |-> [events |-> <<>>]])
    IN  IF Truthy(data)
        THEN LET restructured ==
                     IF {"youtube_data", "calendar_data"} \subseteq DOMAIN data
                     THEN [youtube |->
                               [subscriptions |-> Get(data.youtube_data, "subscriptions", <<>>),
                                liked_videos |-> Get(data.youtube_data, "liked_videos", <<>>)],
                           calendar |->
                               [events |-> Get(data.calendar_data, "events", <<>>)]]
                     ELSE IF DOMAIN data \cap {"subscriptions", "liked_videos", "events"} # {}
                     THEN [youtube |->
                               [subscriptions |-> Get(data, "subscriptions", <<>>),
                                liked_videos |-> Get(data, "liked_videos", <<>>)],
                           calendar |-> [events |-> Get(data, "events", <<>>)]]
                     ELSE data
             IN  [result |-> [success |-> TRUE, data |-> restructured],
                  collected_data |-> restructured]
        ELSE [result |-> [success |-> FALSE, error |-> "no collection result"],
              collected_data |-> old]

\* _analyze_emotions_safe; engine_raises: one of the two engine calls raises
AnalyzeEmotionsSafe(collected, engine_raises, old) ==
    IF ~Truthy(collected)
    THEN [result |-> [success |-> FALSE, error |-> "no collected data"],
          analysis_result |-> old]
    ELSE LET outcome ==
                 IF engine_raises THEN Raised
                 ELSE Returned(
                     [youtube_analysis |->
                          AnalyzeYoutubeEmotions(Get(collected, "youtube", EmptyDict)),
                      calendar_analysis |->
                          AnalyzeCalendarFatigue(Get(collected, "calendar", EmptyDict)),
                      overall_emotion |-> Float(5),
                      emotion_state |-> "positive"])
             analysis == SafeExecute(outcome,
                             [overall_emotion |-> Float(0), emotion_state |-> "neutral"])
         IN  IF Truthy(analysis)
             THEN [result |-> [success |-> TRUE, analysis |-> analysis],
                   analysis_result |-> analysis]
             ELSE [result |-> [success |-> FALSE, error |-> "no analysis result"],
                   analysis_result |-> old]

\* _save_to_firebase_safe
SaveToFirebaseSafe(u, analysis, t, vendor_ok) ==
    IF ~Truthy(analysis)
    THEN [result |-> [success |-> FALSE, error |-> "no analysis result"],
          docs |-> fb_docs]
    ELSE LET r == SaveEmotionAnalysis(u, analysis, t, vendor_ok)
         IN  [result |-> IF r.ok THEN [success |-> TRUE, firebase_saved |-> TRUE]
                         ELSE [success |-> FALSE, error |-> "firebase save failed"],
              docs |-> r.docs]

\* _analyze_history_safe
AnalyzeHistorySafe(u, vendor_ok) ==
    LET history == GetUserHistory(u, HistoryLimit, vendor_ok)
    IN  [result |-> [success |-> TRUE, history_count |-> Len(history)],
         history_data |-> history]

\* sum of a list of floats
RECURSIVE SumFloats(_)
SumFloats(s) == IF s = <<>> THEN 0 ELSE s[1].float + SumFloats(Tail(s))

\* _analyze_trends_safe; recent_average is the fraction sum/count.  Summing
\* raises TypeError when an item's overall_emotion is a dict.
AnalyzeTrendsSafe(history, analysis) ==
    IF history = <<>>
    THEN [success |-> TRUE, message |-> "no history"]
    ELSE IF Len(history) < 2
    THEN [success |-> TRUE,
          trend_data |-> [history_count |-> Len(history),
                          recent_average |-> [num |-> 0, den |-> 1],
                          trend_direction |-> "stable"]]
    ELSE LET recent == Take(history, TrendWindow)
             recent_scores == [i \in DOMAIN recent |->
                                   Get(recent[i], "overall_emotion", Float(0))]
         IN  IF \E i \in DOMAIN recent_scores : ~IsFloat(recent_scores[i])
             THEN [success |-> FALSE, error |-> "TypeError"]
             ELSE IF analysis = NoneValue
             THEN [success |-> FALSE, error |-> "AttributeError"]
             ELSE IF ~IsFloat(Get(analysis, "overall_emotion", Float(0)))
             THEN [success |-> FALSE, error |-> "TypeError"]
             ELSE LET total == SumFloats(recent_scores)
                      n == Len(recent_scores)
                      current == Get(analysis, "overall_emotion", Float(0)).float
                  IN  [success |-> TRUE,
                       trend_data |->
                           [history_count |-> Len(history),
                            recent_average |-> [num |-> total, den |-> n],
                            trend_direction |->
                                IF current * n > total THEN "improving"
                                ELSE IF current * n < total THEN "declining"
                                ELSE "stable"]]

\* _generate_feedback_safe
GenerateFeedbackSafe(analysis) ==
    IF ~Truthy(analysis)
    THEN [success |-> FALSE, error |-> "no analysis result"]
    ELSE LET emotion_score == Get(analysis, "overall_emotion", Float(0))
             emotion_state == Get(analysis, "emotion_state", "neutral")
         IN  IF ~IsFloat(emotion_score)
             THEN [success |-> FALSE, error |-> "TypeError"]
             ELSE [success |-> TRUE,
                   feedback |->
                       [main_message |-> emotion_state,
                        score |-> emotion_score,
                        recommendations |->
                            IF emotion_score.float > 3 THEN "keep_positive"
                            ELSE IF emotion_score.float < -3 THEN "take_rest"
                            ELSE "stay_stable"]]

\* a stage loop that re-raises the STAGE_FAILED error of every stage, the
\* persistence and the feedback stage included
LoopStepReraiseAll(name, stage_result) ==
    IF Get(stage_result, "success", FALSE)
    THEN [abort |-> FALSE, entry |-> stage_result]
    ELSE IF name \in OptionalStages
    THEN [abort |-> FALSE, entry |-> [success |-> FALSE, optional |-> TRUE]]
    ELSE [abort |-> TRUE, entry |-> NoneValue]

\* the body of the stage loop for one stage result: the entry put into the
\* stages map, or the abort of the run (the exception leaves the loop)
LoopStep(name, stage_result) ==
    IF Get(stage_result, "success", FALSE)
    THEN [abort |-> FALSE, entry |-> stage_result]
    ELSE IF name \in OptionalStages
    THEN [abort |-> FALSE, entry |-> [success |-> FALSE, optional |-> TRUE]]
    ELSE IF name \in EssentialStages
    THEN [abort |-> TRUE, entry |-> NoneValue]
    ELSE [abort |-> FALSE, entry |-> [success |-> FALSE, error |-> "STAGE_FAILED"]]

\* an outer handler that counts the failure and raises again
OuterExceptReraise(error, health, u) ==
    [pc |-> "raised",
     system_health |-> [health EXCEPT !.consecutive_failures = @ + 1],
     report |-> NoneValue]

\* an outer except that returns the failure report without counting the
\* failure
OuterExceptUncounted(error, health, u) ==
    [pc |-> "returned",
     system_health |-> health,
     report |-> [success |-> FALSE, error |-> error,
                 error_type |-> "EmotionSystemError",
                 user_id |-> u, timestamp |-> now,
                 system_health |-> health]]

\* the outer `except Exception` of run_complete_analysis: counts the
\* failure and returns the failure report
OuterExcept(error, health, u) ==
    LET counted == [health EXCEPT !.consecutive_failures = @ + 1]
    IN  [pc |-> "returned",
         system_health |-> counted,
         report |-> [success |-> FALSE, error |-> error,
                     error_type |-> "EmotionSystemError",
                     user_id |-> u, timestamp |-> now,
                     system_health |-> counted]]

\* datetime where None may stand as well: no instant yet
NoTime == -1

\* system_health after CompleteEmotionSystem.__init__
FreshHealth == [last_successful_run |-> NoTime, consecutive_failures |-> 0]

\* performance_monitor.get_performance_summary(1) inside the n-th monitored
\* run of the process: the operations ended before it
PerformanceSummary(n) ==
    IF n <= 1 THEN [message |-> "no recent data"]
    ELSE [period_hours |-> 1, total_operations |-> n - 1]

\* the success report compiled after the stage loop
FinalResult(u, t, stages, health, n) ==
    [success |-> TRUE, user_id |-> u, timestamp |-> t, stages |-> stages,
     system_health |-> health, performance_summary |-> PerformanceSummary(n)]

\* the run leaves the try block by an exception
Abort(error, health, u) ==
    LET e == OuterExcept(error, health, u)
    IN  /\ pc' = e.pc
        /\ system_health' = e.system_health
        /\ report' = e.report

\* run_complete_analysis up to the stage loop: the health check
BeginRun(health_ok, health, u) ==
    /\ runs' = runs + 1
    /\ results' = EmptyDict
    /\ stage_log' = <<>>
    /\ logged_errors' = {}
    /\ IF health_ok
       THEN /\ pc' = "data_collection"
            /\ report' = NoneValue
            /\ system_health' = health
       ELSE Abort("HEALTH_CHECK_FAILED", health, u)

\* the stage loop takes the result of a stage
StageDone(name, stage_result) ==
    LET step == LoopStep(name, stage_result)
    IN  /\ stage_log' = Append(stage_log,
                [stage |-> name, success |-> Get(stage_result, "success", FALSE)])
        /\ IF step.abort
           THEN /\ Abort(name, system_health, sys_user)
                /\ results' = results
           ELSE /\ results' = (name :> step.entry) @@ results
                /\ pc' = NextPc(name)
                /\ UNCHANGED <<system_health, report>>

\* a caller runs run_complete_analysis on the instance
RunStart(health_ok) ==
    /\ pc = "idle"
    /\ caller = "main"
    /\ mgr_kind = "FirebaseManager"
    /\ runs < MaxRuns
    /\ BeginRun(health_ok, system_health, sys_user)
    /\ UNCHANGED <<caller, sys_user, collected_data, analysis_result, history_data,
                   emotion_system, response>>
    /\ UNCHANGED store_vars
    /\ UNCHANGED monitor_vars

\* stage 1, 데이터 수집
CollectStage(yt_connect, subs_ok, subs, liked, cal_connect, events) ==
    /\ pc = "data_collection"
    /\ LET outcome == CollectAllData(sys_user, now, yt_connect, subs_ok, subs,
                                     liked, cal_connect, events)
           r == CollectDataSafe(outcome, collected_data)
       IN  /\ collected_data' = r.collected_data
           /\ logged_errors' = IF outcome.raised
                               THEN logged_errors \cup {"data_collection_failed"}
                               ELSE logged_errors
           /\ StageDone("data_collection", r.result)
    /\ UNCHANGED <<caller, sys_user, analysis_result, history_data, runs,
                   emotion_system, response>>
    /\ UNCHANGED store_vars
    /\ UNCHANGED monitor_vars

\* stage 2, 감정 분석
AnalyzeStage(engine_raises) ==
    /\ pc = "emotion_analysis"
    /\ LET r == AnalyzeEmotionsSafe(collected_data, engine_raises, analysis_result)
       IN  /\ analysis_result' = r.analysis_result
           /\ logged_errors' = IF Truthy(collected_data) /\ engine_raises
                               THEN logged_errors \cup {"emotion_analysis_failed"}
                               ELSE logged_errors
           /\ StageDone("emotion_analysis", r.result)
    /\ UNCHANGED <<caller, sys_user, collected_data, history_data, runs,
                   emotion_system, response>>
    /\ UNCHANGED store_vars
    /\ UNCHANGED monitor_vars

\* stage 3, Firebase 저장
SaveStage(vendor_ok) ==
    /\ pc = "firebase_save"
    /\ LET r == SaveToFirebaseSafe(sys_user, analysis_result, now, vendor_ok)
       IN  /\ fb_docs' = r.docs
           /\ StageDone("firebase_save", r.result)
    /\ UNCHANGED <<caller, sys_user, collected_data, analysis_result,
                   history_data, logged_errors, runs, emotion_system, response>>
    /\ UNCHANGED <<now, mgr_kind, initialized, mock_exists, mock_data, ret>>
    /\ UNCHANGED monitor_vars

\* stage 4, 히스토리 분석
HistoryStage(vendor_ok) ==
    /\ pc = "history_analysis"
    /\ LET r == AnalyzeHistorySafe(sys_user, vendor_ok)
       IN  /\ history_data' = r.history_data
           /\ StageDone("history_analysis", r.result)
    /\ UNCHANGED <<caller, sys_user, collected_data, analysis_result,
                   logged_errors, runs, emotion_system, response>>
    /\ UNCHANGED store_vars
    /\ UNCHANGED monitor_vars

\* stage 5, 트렌드 분석
TrendStage ==
    /\ pc = "trend_analysis"
    /\ StageDone("trend_analysis", AnalyzeTrendsSafe(history_data, analysis_result))
    /\ UNCHANGED <<caller, sys_user, collected_data, analysis_result,
                   history_data, logged_errors, runs, emotion_system, response>>
    /\ UNCHANGED store_vars
    /\ UNCHANGED monitor_vars

\* stage 6, 개인화 피드백
FeedbackStage ==
    /\ pc = "personal_feedback"
    /\ StageDone("personal_feedback", GenerateFeedbackSafe(analysis_result))
    /\ UNCHANGED <<caller, sys_user, collected_data, analysis_result,
                   history_data, logged_errors, runs, emotion_system, response>>
    /\ UNCHANGED store_vars
    /\ UNCHANGED monitor_vars

\* after the stage loop: the success is recorded and the report returned
Compile ==
    /\ pc = "compile"
    /\ LET health == [last_successful_run |-> now, consecutive_failures |-> 0]
       IN  /\ system_health' = health
           /\ report' = FinalResult(sys_user, now, results, health, runs)
    /\ pc' = "returned"
    /\ UNCHANGED <<caller, sys_user, collected_data, analysis_result,
                   history_data, results, stage_log, logged_errors, runs,
                   emotion_system, response>>
    /\ UNCHANGED store_vars
    /\ UNCHANGED monitor_vars

\* the caller has taken the report; the locals of the run are gone
MainFinish ==
    /\ pc = "returned"
    /\ caller = "main"
    /\ pc' = "idle"
    /\ results' = EmptyDict
    /\ stage_log' = <<>>
    /\ logged_errors' = {}
    /\ report' = NoneValue
    /\ UNCHANGED <<caller, sys_user, collected_data, analysis_result,
                   history_data, system_health, runs, emotion_system, response>>
    /\ UNCHANGED store_vars
    /\ UNCHANGED monitor_vars

\* ------------------------------------------------------------ POST /analyze
\* AnalysisResponse(success=False, ..., error_message=str(e))
ErrorResponse(u, t, message) ==
    [success |-> FALSE, user_id |-> u, timestamp |-> t,
     emotion_summary |-> NoneValue, personalized_feedback |-> NoneValue,
     error_message |-> message]

\* str(e) of HTTPException(status_code, detail): "<status>: <detail>" where
\* the installed Starlette defines HTTPException.__str__ (str_defined), and
\* the empty string of an Exception constructed without positional
\* arguments where it does not
HTTPExceptionStr(status_detail, str_defined) ==
    IF str_defined THEN status_detail ELSE ""

\* analyze_emotion from the result of the run on: result['key'] raises
\* KeyError for a missing key, and every exception (the HTTPException of the
\* else branch included) ends in the error response
AnalyzeResponse(result, u, t, str_defined) ==
    IF Get(result, "success", FALSE)
    THEN IF {"analysis_timestamp", "emotion_summary", "personalized_feedback"}
                \subseteq DOMAIN result
         THEN [success |-> TRUE, user_id |-> u,
               timestamp |-> result.analysis_timestamp,
               emotion_summary |-> result.emotion_summary,
               personalized_feedback |-> result.personalized_feedback,
               error_message |-> None]
         ELSE ErrorResponse(u, t, "KeyError")
    ELSE ErrorResponse(u, t, HTTPExceptionStr("500: analysis failed", str_defined))

\* analyze_emotion up to the call of the run: the global system must be set,
\* and a CompleteEmotionSystem is constructed for the requested user
\* (ctor_ok: the constructor does not raise)
ApiAnalyze(u, ctor_ok, health_ok, str_defined) ==
    /\ pc = "idle"
    /\ caller = "api"
    /\ mgr_kind = "FirebaseManager"
    /\ runs < MaxRuns
    /\ IF emotion_system /\ ctor_ok
       THEN /\ sys_user' = u
            /\ collected_data' = NoneValue
            /\ analysis_result' = NoneValue
            /\ history_data' = <<>>
            /\ initialized' = FALSE
            /\ response' = NoneValue
            /\ BeginRun(health_ok, FreshHealth, u)
            /\ UNCHANGED <<now, mgr_kind, fb_docs, mock_exists, mock_data, ret,
                           caller, emotion_system>>
       ELSE /\ response' = ErrorResponse(u, now,
                               IF emotion_system THEN "CONFIG_ERROR"
                               ELSE HTTPExceptionStr("503: system not initialized",
                                                     str_defined))
            /\ UNCHANGED <<pc, caller, sys_user, collected_data, analysis_result,
                           history_data, system_health, results, stage_log,
                           logged_errors, report, runs, emotion_system>>
            /\ UNCHANGED store_vars
    /\ UNCHANGED monitor_vars

\* analyze_emotion after the run returned; with the handler the instance of
\* the request and the locals of its run are gone
ApiRespond(str_defined) ==
    /\ pc = "returned"
    /\ caller = "api"
    /\ response' = AnalyzeResponse(report, sys_user, now, str_defined)
    /\ pc' = "idle"
    /\ collected_data' = NoneValue
    /\ analysis_result' = NoneValue
    /\ history_data' = <<>>
    /\ system_health' = FreshHealth
    /\ results' = EmptyDict
    /\ stage_log' = <<>>
    /\ logged_errors' = {}
    /\ report' = NoneValue
    /\ UNCHANGED <<caller, sys_user, runs, emotion_system>>
    /\ UNCHANGED store_vars
    /\ UNCHANGED monitor_vars

\* ------------------------------------------------------- the orchestration
\* documents written for u1 by earlier processes, with overall_emotion as
\* the dict of calculate_overall_emotion
LegacyDocs ==
    [u \in Users |->
        IF u = "u1"
        THEN (AnalysisId(-1) :> FirebaseSaveData("u1", RecordPositive("u1"), -1))
             @@ (AnalysisId(-3) :> FirebaseSaveData("u1", RecordNegative("u1"), -3))
        ELSE EmptyDict]

\* a constructed CompleteEmotionSystem on which nothing ran yet
\* PerformanceMonitor.__init__: the module-level performance_monitor
NewMonitor ==
    /\ current_metrics = EmptyDict
    /\ metrics_history = <<>>
    /\ total_operations = 0
    /\ wrappers = <<>>

InstanceInit ==
    /\ pc = "idle"
    /\ sys_user = "u1"
    /\ collected_data = NoneValue
    /\ analysis_result = NoneValue
    /\ history_data = <<>>
    /\ system_health = FreshHealth
    /\ results = EmptyDict
    /\ stage_log = <<>>
    /\ logged_errors = {}
    /\ report = NoneValue
    /\ runs = 0
    /\ response = NoneValue

RunInit ==
    /\ now = 0
    /\ mgr_kind = "FirebaseManager"
    /\ initialized = FALSE
    /\ fb_docs \in {[u \in Users |-> EmptyDict], LegacyDocs}
    /\ mock_exists = FALSE
    /\ mock_data = EmptyDict
    /\ ret = [op |-> "none"]
    /\ InstanceInit
    /\ NewMonitor
    /\ \/ caller = "main" /\ emotion_system = FALSE
       \/ caller = "api" /\ emotion_system \in BOOLEAN

RunNext ==
    \/ Tick
    \/ \E ok \in BOOLEAN : FirebaseInitialize(ok)
    \/ \E health_ok \in BOOLEAN : RunStart(health_ok)
    \/ \E yt_connect, subs_ok, cal_connect \in BOOLEAN :
          \E subs \in SubscriptionLists, liked \in LikedLists, events \in EventLists :
              CollectStage(yt_connect, subs_ok, subs, liked, cal_connect, events)
    \/ \E engine_raises \in BOOLEAN : AnalyzeStage(engine_raises)
    \/ \E vendor_ok \in BOOLEAN : SaveStage(vendor_ok)
    \/ \E vendor_ok \in BOOLEAN : HistoryStage(vendor_ok)
    \/ TrendStage
    \/ FeedbackStage
    \/ Compile
    \/ MainFinish
    \/ \E u \in Users, ctor_ok, health_ok, str_defined \in BOOLEAN :
          ApiAnalyze(u, ctor_ok, health_ok, str_defined)
    \/ \E str_defined \in BOOLEAN : ApiRespond(str_defined)

RunSpec == RunInit /\ [][RunNext]_vars

\* ------------------------------------------------- persistence, on its own
\* test_firebase_integration: a FirebaseManager, or a MockFirebaseManager
\* when Firebase cannot be initialized.
StoreInit ==
    /\ now = 0
    /\ mgr_kind \in {"FirebaseManager", "MockFirebaseManager"}
    /\ initialized = FALSE
    /\ fb_docs = [u \in Users |-> EmptyDict]
    /\ mock_exists = FALSE
    /\ mock_data = EmptyDict
    /\ ret = [op |-> "none"]
    /\ InstanceInit
    /\ NewMonitor
    /\ caller = "main"
    /\ emotion_system = FALSE

StoreNext ==
    \/ Tick
    \/ \E ok \in BOOLEAN : FirebaseInitialize(ok)
    \/ MockInitialize
    \/ \E u \in Users, ok \in BOOLEAN : \E data \in AnalysisInputs(u) :
          FirebaseSave(u, data, ok)
    \/ \E u \in Users, limit \in 0..MaxLimit, ok \in BOOLEAN :
          FirebaseGetHistory(u, limit, ok)
    \/ \E u \in Users, ok \in BOOLEAN : \E data \in AnalysisInputs(u) :
          MockSave(u, data, ok)
    \/ \E u \in Users, limit \in 0..MaxLimit, ok \in BOOLEAN :
          MockGetHistory(u, limit, ok)

StoreSpec == StoreInit /\ [][StoreNext]_vars

\* ------------------------------------------------------------- persistence
\* the documents of a Firestore collection
Documents(coll) == {coll[i] : i \in DOMAIN coll}

\* the elements of a sequence
Range(s) == {s[i] : i \in DOMAIN s}

\* C4: FirebaseManager.get_user_history(user_id, limit) returns at most
\* `limit` documents, all of them stored for that user, newest first by
\* write timestamp (every document left out is older than every document
\* returned), and the empty list when the adapter is not initialized.
C4_HistoryNewestFirst ==
    (mgr_kind = "FirebaseManager" /\ ret.op = "get") =>
        /\ Len(ret.value) <= ret.limit
        /\ Range(ret.value) \subseteq Documents(fb_docs[ret.user])
        /\ \A i \in DOMAIN ret.value : ret.value[i].user_id = ret.user
        /\ \A i, j \in DOMAIN ret.value :
              i < j => ret.value[i].timestamp > ret.value[j].timestamp
        /\ \A d \in Documents(fb_docs[ret.user]) \ Range(ret.value) :
              \A i \in DOMAIN ret.value : d.timestamp < ret.value[i].timestamp
        /\ (~initialized => ret.value = <<>>)

\* C4 witness: a query with limit 1 on a user who has two documents returned
\* one document (the newer one).
C4_Witness ==
    /\ mgr_kind = "FirebaseManager"
    /\ ret.op = "get"
    /\ ret.limit = 1
    /\ Len(ret.value) = 1
    /\ Cardinality(DOMAIN fb_docs[ret.user]) = 2

\* the analysis sections of a stored record, as get_emotion_trends and
\* _analyze_trends read them
Sections(d) ==
    [analysis_date |-> Get(d, "analysis_date", None),
     youtube_analysis |-> Get(d, "youtube_analysis", EmptyDict),
     calendar_analysis |-> Get(d, "calendar_analysis", EmptyDict),
     overall_emotion |-> Get(d, "overall_emotion", EmptyDict)]

SectionsOf(s) == [i \in DOMAIN s |-> Sections(s[i])]

\* the Firestore collection of user u after the saves that produced the
\* given list of local-file entries (same records, same instants)
RECURSIVE ReplaySaves(_, _)
ReplaySaves(entries, u) ==
    IF entries = <<>> THEN EmptyDict
    ELSE LET e == entries[Len(entries)]
         IN  DocumentSet(ReplaySaves(SubSeq(entries, 1, Len(entries) - 1), u),
                         AnalysisId(e.timestamp),
                         FirebaseSaveData(u, e, e.timestamp))

\* C5: MockFirebaseManager.get_user_history returns the same records in the
\* same order as FirebaseManager.get_user_history would return after the
\* same sequence of saves, for every limit >= 0.
C5_MockMirrorsFirebase ==
    (mgr_kind = "MockFirebaseManager" /\ ret.op = "get" /\ ret.ok) =>
        SectionsOf(ret.value) =
            SectionsOf(FirestoreQuery(
                ReplaySaves(Get(mock_data, ret.user, <<>>), ret.user), ret.limit))

\* what get_user_history(u, limit) of the adapter in use returns now
History(u, limit) ==
    IF mgr_kind = "FirebaseManager"
    THEN IF initialized THEN FirestoreQuery(fb_docs[u], limit) ELSE <<>>
    ELSE IF mock_exists THEN MockQuery(mock_data, u, limit) ELSE <<>>

\* overall.get('emotion_score', 0) and calendar.get('stress_level', 'unknown')
EmotionScore(d) == Get(Get(d, "overall_emotion", EmptyDict), "emotion_score", 0)
StressLevel(d) == Get(Get(d, "calendar_analysis", EmptyDict), "stress_level", "unknown")

\* C6: after a successful save_emotion_analysis(user_id, record), a following
\* get_user_history(user_id, limit) with limit >= 1 returns as first element
\* a record with the user_id, emotion_score and stress_level of the record
\* just saved.
C6_RoundTrip ==
    (ret.op = "save" /\ ret.ok) =>
        \A limit \in 1..MaxLimit :
            LET h == History(ret.user, limit)
            IN  /\ h # <<>>
                /\ Get(h[1], "user_id", None) \in
                       {ret.user, Get(ret.data, "user_id", None)}
                /\ EmotionScore(h[1]) = EmotionScore(ret.data)
                /\ StressLevel(h[1]) = StressLevel(ret.data)

\* C7: a stored record is immutable: no step modifies, replaces or removes a
\* record that a save has stored.
C7_ImmutableAfterWrite ==
    [][ /\ \A u \in Users : \A id \in DOMAIN fb_docs[u] :
              id \in DOMAIN fb_docs'[u] /\ fb_docs'[u][id] = fb_docs[u][id]
        /\ \A u \in DOMAIN mock_data : \A k \in DOMAIN mock_data[u] :
              /\ u \in DOMAIN mock_data'
              /\ k \in DOMAIN mock_data'[u]
              /\ mock_data'[u][k] = mock_data[u][k]
      ]_store_vars

\* C8: save_emotion_analysis(u, record) leaves the history of every other
\* user unchanged, and every record get_user_history(u, limit) returns
\* carries user_id = u.
C8_NoCrossUserSharing ==
    [][ /\ ret'.op = "save" =>
              \A v \in Users \ {ret'.user} :
                  /\ fb_docs'[v] = fb_docs[v]
                  /\ Get(mock_data', v, <<>>) = Get(mock_data, v, <<>>)
        /\ ret'.op = "get" =>
              \A i \in DOMAIN ret'.value :
                  Get(ret'.value[i], "user_id", None) = ret'.user
      ]_store_vars

\* the fields of the persisted document shape
DocumentFields ==
    {"user_id", "analysis_id", "timestamp", "analysis_date", "youtube_analysis",
     "calendar_analysis", "overall_emotion", "data_source", "version"}

\* C9: every document written by save_emotion_analysis has exactly the
\* fields of the persisted document shape.
C9_DocumentShape ==
    /\ \A u \in Users : \A d \in Documents(fb_docs[u]) : DOMAIN d = DocumentFields
    /\ \A u \in DOMAIN mock_data : \A k \in DOMAIN mock_data[u] :
          DOMAIN mock_data[u][k] = DocumentFields

\* ----------------------------------------------------------- orchestration
\* the stages the loop has taken the result of, in order
StagesRun == [i \in DOMAIN stage_log |-> stage_log[i].stage]

\* the stage ran and its result was unsuccessful
StageFailed(name) ==
    \E i \in DOMAIN stage_log : stage_log[i].stage = name /\ ~stage_log[i].success

\* C1: whenever collect_all_data raises or the scoring engine raises during
\* a run, the run is aborted: no stage after the essential stages is
\* executed and the returned report has success = false.
C1_EssentialFailureAborts ==
    (logged_errors \cap {"data_collection_failed", "emotion_analysis_failed"} # {}) =>
        /\ pc = "returned"
        /\ ~report.success
        /\ \A i \in DOMAIN stage_log : stage_log[i].stage \in EssentialStages

\* the stages whose failure is not to abort the run
DegradingStages == {"firebase_save", "history_analysis", "trend_analysis"}

\* C2: a failure of the persistence, history or trend stage never aborts the
\* run: the failed stage is recorded as unsuccessful in the stages map, the
\* run goes on with the next stage, and once it has returned all six stages
\* were executed and the report has success = true with the failed stage
\* recorded as unsuccessful in its stages map.
C2_DegradingFailureContinues ==
    \A name \in DegradingStages :
        StageFailed(name) =>
            /\ name \in DOMAIN results
            /\ ~results[name].success
            /\ pc = "returned" =>
                  /\ StagesRun = StageNames
                  /\ report.success
                  /\ name \in DOMAIN report.stages
                  /\ ~report.stages[name].success

\* C2 witness: a run returned its success report after the persistence
\* stage and the trend stage had both failed.
C2_Witness ==
    /\ pc = "returned"
    /\ StageFailed("firebase_save")
    /\ StageFailed("trend_analysis")
    /\ report.success
    /\ ~report.stages["firebase_save"].success
    /\ ~report.stages["trend_analysis"].success

\* C3: run_complete_analysis never propagates an exception to its caller:
\* it returns a report that is either a success report or a failure report
\* with success = false, error and error_type.
C3_RunAlwaysReturnsReport ==
    /\ pc # "raised"
    /\ pc = "returned" =>
          /\ "success" \in DOMAIN report
          /\ \/ report.success
             \/ /\ {"error", "error_type"} \subseteq DOMAIN report
                /\ report.success = FALSE

\* C3 witness: the health check failed and the run returned the failure
\* report.
C3_Witness ==
    /\ pc = "returned"
    /\ "error" \in DOMAIN report
    /\ report.success = FALSE
    /\ report.error = "HEALTH_CHECK_FAILED"
    /\ report.error_type = "EmotionSystemError"

\* C10: POST /analyze: whenever the run for the requested user returned a
\* success report, the response of the handler has success = true and
\* carries an emotion_summary and a personalized_feedback.
C10_AnalyzeCarriesSummary ==
    (pc = "returned" /\ caller = "api" /\ Get(report, "success", FALSE)) =>
        \A str_defined \in BOOLEAN :
            LET answer == AnalyzeResponse(report, sys_user, now, str_defined)
            IN  /\ answer.success
                /\ answer.emotion_summary # NoneValue
                /\ answer.personalized_feedback # NoneValue

MaxAttempts == 3

\* func() raised the exception `error`
RaisedWith(error) == [raised |-> TRUE, error |-> error]

\* what the invocations of the wrapped function do: the i-th invocation
\* returns i or raises the exception i
InvocationOutcomes ==
    [1..(MaxAttempts + 1) -> {"returns", "raises"}]

Invoke(outcomes, i) ==
    IF outcomes[i] = "returns" THEN Returned(i) ELSE RaisedWith(i)

\* the wrapper ended without a return statement
ReturnedNone == Returned(NoneValue)

\* a wrapper that goes on to one more attempt after the last one failed and
\* sleeps before it
RECURSIVE RetryOneTooMany(_, _, _, _)
RetryOneTooMany(max_attempts, outcomes, attempt, events) ==
    IF attempt > max_attempts + 1
    THEN [events |-> events, outcome |-> ReturnedNone]
    ELSE LET r == Invoke(outcomes, attempt)
             called == Append(events, "call")
         IN  IF ~r.raised THEN [events |-> called, outcome |-> r]
             ELSE IF attempt = max_attempts + 1
             THEN [events |-> called, outcome |-> r]
             ELSE RetryOneTooMany(max_attempts, outcomes, attempt + 1,
                                  Append(called, "sleep"))

\* the wrapper of retry_operation(max_attempts), from attempt `attempt` on:
\* what it hands to its caller and the calls and sleeps it made.  The loop
\* over range(1, max_attempts + 1) ends without a return when max_attempts
\* is 0.
RECURSIVE RetryOperation(_, _, _, _)
RetryOperation(max_attempts, outcomes, attempt, events) ==
    IF attempt > max_attempts
    THEN [events |-> events, outcome |-> ReturnedNone]
    ELSE LET r == Invoke(outcomes, attempt)
             called == Append(events, "call")
         IN  IF ~r.raised THEN [events |-> called, outcome |-> r]
             ELSE IF attempt = max_attempts
             THEN [events |-> called, outcome |-> r]
             ELSE RetryOperation(max_attempts, outcomes, attempt + 1,
                                 Append(called, "sleep"))


\* ----------------------------------------------------------- validate_data
\* a dict value, told apart from a list by isinstance(data, dict)
DictValue(d) == [type |-> "dict", fields |-> d]

\* `not data`: None, the empty dict and the empty list are falsy
Falsy(data) ==
    \/ data.type = "NoneType"
    \/ data.type = "dict" /\ DOMAIN data.fields = {}
    \/ data.type = "list" /\ data.value = <<>>

\* a validation that leaves out the emptiness test
ValidateDataNoEmptyTest(data, required_fields) ==
    IF data.type = "dict"
    THEN {i \in DOMAIN required_fields :
              required_fields[i] \notin DOMAIN data.fields} = {}
    ELSE data.type # "NoneType"

\* validate_data(data, required_fields): every exception raised inside is
\* caught and answered with False
ValidateData(data, required_fields) ==
    IF Falsy(data) THEN FALSE
    ELSE IF data.type = "dict"
    THEN LET missing_fields ==
                 {i \in DOMAIN required_fields :
                      required_fields[i] \notin DOMAIN data.fields}
         IN  missing_fields = {}
    ELSE TRUE

\* inputs of validate_data: None, dicts and lists, empty and not
ValidatedData ==
    {NoneReturn, DictValue(EmptyDict), ListValue(<<>>),
     DictValue([name |-> "a"]), DictValue([name |-> "a", email |-> "b", age |-> 25]),
     ListValue(<<"name">>), ListValue(<<"x">>)}

RequiredFieldLists ==
    {<<>>, <<"name">>, <<"name", "email">>, <<"name", "email", "age">>}


\* ---------------------------------------------------------- _analyze_trends
\* sum(emotion_scores), the scores in tenths
RECURSIVE SumScores(_)
SumScores(emotion_scores) ==
    IF emotion_scores = <<>> THEN 0
    ELSE Head(emotion_scores) + SumScores(Tail(emotion_scores))

\* the trend label: 상승 (up), 하락 (down) or 유지 (flat)
TrendLabel(recent_avg, older_avg) ==
    IF recent_avg.num * older_avg.den > older_avg.num * recent_avg.den THEN "up"
    ELSE IF recent_avg.num * older_avg.den < older_avg.num * recent_avg.den
         THEN "down"
    ELSE "flat"

\* the trend computed with the newest record alone as the recent average
AnalyzeTrendsNewestOnly(history) ==
    IF Len(history) < 2 THEN NoneValue
    ELSE LET emotion_scores ==
                 [i \in DOMAIN history |->
                     Get(Get(history[i], "overall_emotion", EmptyDict),
                         "emotion_score", 0)]
             recent_avg == Fraction(emotion_scores[1], 1)
             older == SubSeq(emotion_scores, 2, Len(emotion_scores))
             older_avg == Fraction(SumScores(older), Len(older))
         IN  [recent_average |-> recent_avg,
              emotion_trend |-> TrendLabel(recent_avg, older_avg),
              historical_average |-> older_avg,
              data_points |-> Len(emotion_scores)]

\* CompleteEmotionSystem._analyze_trends, given the history the store
\* returned: the trend_analysis entry it adds to analysis_result, or None when
\* it returns before adding one
AnalyzeTrends(history) ==
    IF Len(history) < 2 THEN NoneValue
    ELSE LET emotion_scores ==
                 [i \in DOMAIN history |->
                     Get(Get(history[i], "overall_emotion", EmptyDict),
                         "emotion_score", 0)]
             recent_avg == Fraction(SumScores(SubSeq(emotion_scores, 1, 2)), 2)
             older == SubSeq(emotion_scores, 3, Len(emotion_scores))
             older_avg == IF Len(emotion_scores) > 2
                          THEN Fraction(SumScores(older), Len(older))
                          ELSE recent_avg
         IN  [recent_average |-> recent_avg,
              emotion_trend |-> TrendLabel(recent_avg, older_avg),
              historical_average |-> older_avg,
              data_points |-> Len(emotion_scores)]


\* ------------------------------------------------- GoogleAuthenticator.login

\* threshold_minutes of _is_token_expired_soon
ThresholdMinutes == 5

\* the authenticator after __init__
NewAuthenticator == [auth_failures |-> 0, last_auth_time |-> NoTime]

\* a token file: whether it exists, whether from_authorized_user_file can read
\* it, and the credentials it holds (valid and expired as the vendor library
\* reports them, the expiry as minutes from utcnow, the refresh token)
TokenFile(exists, readable, valid, expired, has_expiry, minutes_left, refresh_token) ==
    [exists |-> exists, readable |-> readable, valid |-> valid,
     expired |-> expired, has_expiry |-> has_expiry,
     minutes_left |-> minutes_left, refresh_token |-> refresh_token]

\* _is_token_expired_soon answering False always
IsTokenExpiredSoonNever(creds, threshold_minutes) == FALSE

\* _is_token_expired_soon: no expiry is never soon; otherwise the seconds until
\* the expiry are compared with the threshold
IsTokenExpiredSoon(creds, threshold_minutes) ==
    IF ~creds.has_expiry THEN FALSE
    ELSE creds.minutes_left * 60 < threshold_minutes * 60

\* what the try body of login did: whether it returned or raised, where the
\* returned credentials came from, whether the token file exists afterwards,
\* and which of refresh, write and interactive flow it started
LoginStep(returned, raised, source, token_exists, refresh_called, written, interactive) ==
    [raised |-> raised, returned |-> returned, source |-> source,
     token_exists |-> token_exists, refresh_called |-> refresh_called,
     written |-> written, interactive |-> interactive]

\* the handler of the inner try: the token file is removed, and a failing
\* os.remove leaves the handler for the outer one
ExistingTokenFailed(env, refresh_called) ==
    IF env.remove_ok
    THEN LoginStep(FALSE, FALSE, "none", FALSE, refresh_called, FALSE, FALSE)
    ELSE LoginStep(FALSE, TRUE, "none", TRUE, refresh_called, FALSE, FALSE)

\* login up to "a new authentication is needed": the existing token is
\* returned, refreshed and returned, or left behind
ExistingToken(token_file, env) ==
    IF ~token_file.exists
    THEN LoginStep(FALSE, FALSE, "none", FALSE, FALSE, FALSE, FALSE)
    ELSE IF ~token_file.readable THEN ExistingTokenFailed(env, FALSE)
    ELSE IF token_file.valid /\ ~IsTokenExpiredSoon(token_file, ThresholdMinutes)
    THEN LoginStep(TRUE, FALSE, "existing", TRUE, FALSE, FALSE, FALSE)
    ELSE IF token_file.expired /\ token_file.refresh_token
    THEN IF ~env.refresh_ok THEN ExistingTokenFailed(env, TRUE)
         ELSE IF ~env.refresh_write_ok THEN ExistingTokenFailed(env, TRUE)
         ELSE LoginStep(TRUE, FALSE, "refreshed", TRUE, TRUE, TRUE, FALSE)
    ELSE LoginStep(FALSE, FALSE, "none", TRUE, FALSE, FALSE, FALSE)

\* the new authentication: the interactive flow and the write of its token
NewAuthentication(before, env) ==
    IF ~env.flow_ok
    THEN LoginStep(FALSE, TRUE, "none", before.token_exists,
                   before.refresh_called, FALSE, TRUE)
    ELSE IF ~env.flow_write_ok
    THEN LoginStep(FALSE, TRUE, "none", before.token_exists,
                   before.refresh_called, FALSE, TRUE)
    ELSE LoginStep(TRUE, FALSE, "new", TRUE, before.refresh_called, TRUE, TRUE)

\* login: the authenticator's fields after the call together with what the
\* call did; a return sets auth_failures to 0 and last_auth_time to the clock,
\* the outer handler adds 1 to auth_failures and raises DataCollectionError
Login(self, token_file, env, t) ==
    LET existing == ExistingToken(token_file, env)
        done == IF existing.returned \/ existing.raised THEN existing
                ELSE NewAuthentication(existing, env)
    IN  IF done.raised
        THEN [raised |-> TRUE, error |-> "DataCollectionError",
              auth_failures |-> self.auth_failures + 1,
              last_auth_time |-> self.last_auth_time, did |-> done]
        ELSE [raised |-> FALSE, error |-> "",
              auth_failures |-> 0, last_auth_time |-> t, did |-> done]

\* ------------------------------------------------- the library functions
\* a caller applies one function of the library to an input; ret records
\* the call and what it returned, until the caller has taken the result
NoCall == [op |-> "none"]

Call(op, args, value) ==
    /\ ret = NoCall
    /\ ret' = [op |-> op, value |-> value, args |-> args]
    /\ UNCHANGED <<now, mgr_kind, initialized, fb_docs, mock_exists, mock_data>>
    /\ UNCHANGED run_vars
    /\ UNCHANGED monitor_vars

\* lists a vendor response can yield
FetchedLists ==
    {<<>>} \cup SubscriptionLists \cup LikedLists \cup EventLists

CallGetSubscriptions(vendor_ok, items) ==
    Call("get_subscriptions", [vendor_ok |-> vendor_ok, items |-> items],
         GetSubscriptions(vendor_ok, items))

CallGetLikedVideos(vendor_ok, items) ==
    Call("get_liked_videos", [vendor_ok |-> vendor_ok, items |-> items],
         GetLikedVideos(vendor_ok, items))

CallGetRecentEvents(vendor_ok, items) ==
    Call("get_recent_events", [vendor_ok |-> vendor_ok, items |-> items],
         GetRecentEvents(vendor_ok, items))


CallRetry(max_attempts, outcomes) ==
    Call("retry_operation", [outcomes |-> outcomes, max_attempts |-> max_attempts],
         RetryOperation(max_attempts, outcomes, 1, <<>>))


CallValidateData(data, required_fields) ==
    Call("validate_data", [data |-> data, required_fields |-> required_fields],
         ValidateData(data, required_fields))


\* the youtube_data dictionaries the engine is given: no keys at all, or the
\* two lists.  The inputs hold a channel with emotion and interest keywords,
\* one with an interest keyword only, one without keywords and a date that
\* does not parse, and liked videos with and without an emotion keyword.
Subscription(channel_name, subscribed_at) ==
    [channel_name |-> channel_name, channel_id |-> "c1",
     subscribed_at |-> subscribed_at]

LikedVideo(title, published_at) ==
    [title |-> title, video_id |-> "v1", channel |-> "c1",
     published_at |-> published_at]

AnalyzedSubscriptions ==
    {<<>>,
     <<Subscription("healing music", "2025-01-01")>>,
     <<Subscription("anime", "2025-01-07")>>,
     <<Subscription("daily log", "yesterday")>>,
     <<Subscription("study jazz", "2025-01-07"),
       Subscription("healing music", "2025-01-09")>>}

AnalyzedLiked ==
    {<<>>,
     <<LikedVideo("stress relief", "2025-01-01")>>,
     <<LikedVideo("anime", "2025-01-07")>>}

YoutubeData ==
    {EmptyDict}
    \cup {[subscriptions |-> s, liked_videos |-> l] :
             s \in AnalyzedSubscriptions, l \in AnalyzedLiked}

CallAnalyzeYoutubeEmotions(youtube_data) ==
    Call("analyze_youtube_emotions", youtube_data,
         AnalyzeYoutubeEmotions(youtube_data))


\* the calendars the engine is given: up to MaxEvents events on two days, each
\* all-day, in the morning or at night
MaxEvents == 4

Event(start_date, start_time) ==
    [title |-> "meeting", start_date |-> start_date, start_time |-> start_time,
     description |-> "", location |-> ""]

FiveAllDayEvents == [i \in 1..5 |-> Event("2025-01-02", AllDay)]

AnalyzedEvents ==
    {FiveAllDayEvents}
    \cup UNION {[1..n -> {Event(d, h) : d \in {"2025-01-02", "2025-01-03"},
                                        h \in {AllDay, 9, 23}}] : n \in 0..MaxEvents}

CallAnalyzeCalendarFatigue(events) ==
    Call("analyze_calendar_fatigue", [events |-> events],
         AnalyzeCalendarFatigue([events |-> events]))

\* the indexes the level is decided for on their own: the tenths from 0.0 to
\* MaxIndexTenths / 10
MaxIndexTenths == 30

CallStressLevel(fatigue_index) ==
    Call("stress_level", fatigue_index,
         [fatigue_index |-> fatigue_index,
          stress_level |-> StressLevelOf(fatigue_index)])


\* the caller takes the result of the call
TakeResult ==
    /\ ret # NoCall
    /\ ret' = NoCall
    /\ UNCHANGED <<now, mgr_kind, initialized, fb_docs, mock_exists, mock_data>>
    /\ UNCHANGED run_vars
    /\ UNCHANGED monitor_vars


\* the calendars the overall emotion is computed for
OverallCalendars ==
    {EmptyDict, [events |-> <<>>],
     [events |-> <<Event("2025-01-02", 9)>>],
     [events |-> <<Event("2025-01-02", 23), Event("2025-01-02", 23)>>],
     [events |-> <<Event("2025-01-02", 23), Event("2025-01-02", 23),
                   Event("2025-01-02", 23), Event("2025-01-02", 9)>>]}

\* the three engine calls of the emotion analysis, one after the other
CallCalculateOverallEmotion(youtube_data, calendar_data) ==
    LET youtube_analysis == AnalyzeYoutubeEmotions(youtube_data)
        calendar_analysis == AnalyzeCalendarFatigue(calendar_data)
    IN  Call("calculate_overall_emotion",
             [youtube_data |-> youtube_data, calendar_data |-> calendar_data],
             [youtube_analysis |-> youtube_analysis,
              calendar_analysis |-> calendar_analysis,
              overall_emotion |-> CalculateOverallEmotion(youtube_analysis,
                                                          calendar_analysis)])


\* the histories the trend is computed for, newest first: up to
\* MaxTrendHistory records, each with an emotion_score in tenths or without an
\* overall_emotion section
MaxTrendHistory == 4

TrendRecords ==
    {EmptyDict} \cup {[overall_emotion |-> [emotion_score |-> s]] : s \in {1, 3, 5}}

TrendHistories == UNION {[1..n -> TrendRecords] : n \in 0..MaxTrendHistory}

CallAnalyzeTrends(history) ==
    Call("_analyze_trends", history, AnalyzeTrends(history))


\* the analyses calculate_overall_emotion is given on their own: emotion
\* scores in tenths that sum to 1, or all 0, with every stress level
ScoreTenths == 10

ScoresOf(p, n, rest) ==
    [negative |-> Fraction(n, ScoreTenths), neutral |-> Fraction(rest, ScoreTenths),
     positive |-> Fraction(p, ScoreTenths)]

NormalizedScores ==
    {ScoresOf(0, 0, 0)}
    \cup {ScoresOf(pn[1], pn[2], ScoreTenths - pn[1] - pn[2]) :
             pn \in {x \in (0..ScoreTenths) \X (0..ScoreTenths) :
                        x[1] + x[2] <= ScoreTenths}}

NoInterests == [c \in DOMAIN interest_categories |-> Fraction(0, ScoreUnit)]

CallOverallEmotion(emotion_scores, stress_level) ==
    LET youtube_analysis == [emotion_scores |-> emotion_scores,
                             interests |-> NoInterests]
        calendar_analysis == [stress_level |-> stress_level]
    IN  Call("overall_emotion",
             [youtube_analysis |-> youtube_analysis,
              calendar_analysis |-> calendar_analysis],
             [youtube_analysis |-> youtube_analysis,
              calendar_analysis |-> calendar_analysis,
              overall_emotion |-> CalculateOverallEmotion(youtube_analysis,
                                                          calendar_analysis)])


\* collect_all_data with every outcome of the two connects and of the
\* subscriptions fetch
CallCollectAllData(yt_connect, subs_ok, cal_connect, subs, liked, events) ==
    Call("collect_all_data",
         [yt_connect |-> yt_connect, subs_ok |-> subs_ok, cal_connect |-> cal_connect],
         [outcome |-> CollectAllData("u1", 0, yt_connect, subs_ok, subs, liked,
                                     cal_connect, events),
          calls |-> CollectAllDataCalls(yt_connect, subs_ok, cal_connect)])


\* the failure counts an authenticator has before a login
MaxAuthFailures == 2

\* the credentials a token file can hold: an expired token is not valid and
\* has an expiry that has passed, a token whose expiry has passed is expired
TokenFiles ==
    { f \in { TokenFile(e, r, v, x, h, m, rt) :
                  e \in BOOLEAN, r \in BOOLEAN, v \in BOOLEAN, x \in BOOLEAN,
                  h \in BOOLEAN, m \in {-10, 2, 60}, rt \in BOOLEAN } :
        /\ f.expired => (~f.valid /\ f.has_expiry /\ f.minutes_left <= 0)
        /\ (f.has_expiry /\ f.minutes_left <= 0) => f.expired
        /\ ~f.has_expiry => f.minutes_left = 60
        /\ ~f.exists => (~f.readable /\ ~f.valid /\ ~f.expired /\ ~f.has_expiry
                         /\ ~f.refresh_token)
        /\ (f.exists /\ ~f.readable) => (~f.valid /\ ~f.expired /\ ~f.has_expiry
                                         /\ ~f.refresh_token) }

\* the outcomes of the calls login makes: the refresh, the two writes of the
\* token file, os.remove and the interactive flow
LoginEnvs ==
    [remove_ok : BOOLEAN, refresh_ok : BOOLEAN, refresh_write_ok : BOOLEAN,
     flow_ok : BOOLEAN, flow_write_ok : BOOLEAN]

\* login on an authenticator with some failures behind it
CallLogin(token_file, env, auth_failures, last_auth_time) ==
    Call("login",
         [auth_failures |-> auth_failures, last_auth_time |-> last_auth_time,
          env |-> env, token_file |-> token_file],
         Login([NewAuthenticator EXCEPT !.auth_failures = auth_failures,
                                        !.last_auth_time = last_auth_time],
               token_file, env, now))

CalcInit ==
    /\ now = 0
    /\ mgr_kind = "FirebaseManager"
    /\ initialized = FALSE
    /\ fb_docs = [u \in Users |-> EmptyDict]
    /\ mock_exists = FALSE
    /\ mock_data = EmptyDict
    /\ ret = NoCall
    /\ InstanceInit
    /\ NewMonitor
    /\ caller = "main"
    /\ emotion_system = FALSE

CalcNext ==
    \/ TakeResult
    \/ \E vendor_ok \in BOOLEAN, items \in FetchedLists :
          CallGetSubscriptions(vendor_ok, items)
    \/ \E vendor_ok \in BOOLEAN, items \in FetchedLists :
          CallGetLikedVideos(vendor_ok, items)
    \/ \E vendor_ok \in BOOLEAN, items \in FetchedLists :
          CallGetRecentEvents(vendor_ok, items)
    \/ \E max_attempts \in 0..MaxAttempts, outcomes \in InvocationOutcomes :
          CallRetry(max_attempts, outcomes)
    \/ \E data \in ValidatedData, required_fields \in RequiredFieldLists :
          CallValidateData(data, required_fields)
    \/ \E youtube_data \in YoutubeData :
          CallAnalyzeYoutubeEmotions(youtube_data)
    \/ \E events \in AnalyzedEvents : CallAnalyzeCalendarFatigue(events)
    \/ \E tenths \in 0..MaxIndexTenths : CallStressLevel(Fraction(tenths, 10))
    \/ \E youtube_data \in YoutubeData, calendar_data \in OverallCalendars :
          CallCalculateOverallEmotion(youtube_data, calendar_data)
    \/ \E history \in TrendHistories : CallAnalyzeTrends(history)
    \/ \E emotion_scores \in NormalizedScores,
          stress_level \in {"low", "medium", "high"} :
          CallOverallEmotion(emotion_scores, stress_level)
    \/ \E yt_connect \in BOOLEAN, subs_ok \in BOOLEAN, cal_connect \in BOOLEAN,
          subs \in {<<>>} \cup SubscriptionLists, liked \in {<<>>} \cup LikedLists,
          events \in {<<>>} \cup EventLists :
          CallCollectAllData(yt_connect, subs_ok, cal_connect, subs, liked, events)
    \/ \E token_file \in TokenFiles, env \in LoginEnvs,
          auth_failures \in 0..MaxAuthFailures, last_auth_time \in {NoTime, 0} :
          CallLogin(token_file, env, auth_failures, last_auth_time)

CalcSpec == CalcInit /\ [][CalcNext]_vars

\* the fetch operations of the collectors
FetchOps == {"get_subscriptions", "get_liked_videos", "get_recent_events"}

\* C12: each collector fetch operation returns a list: the fetched records
\* on success and the empty list, never a non-list value, when the vendor
\* call fails.
C12_FetchReturnsList ==
    ret.op \in FetchOps =>
        /\ ret.value.type = "list"
        /\ ret.args.vendor_ok => ret.value.value = ret.args.items
        /\ ~ret.args.vendor_ok => ret.value.value = <<>>

\* number of invocations of the wrapped function
Invocations(events) == Cardinality({i \in DOMAIN events : events[i] = "call"})

\* the first invocation that returns, or 0 when none of the first n does
FirstSuccess(outcomes, n) ==
    IF \E k \in 1..n : outcomes[k] = "returns"
    THEN CHOOSE k \in 1..n :
             outcomes[k] = "returns" /\ \A j \in 1..(k - 1) : outcomes[j] = "raises"
    ELSE 0

\* C13: a function wrapped with retry_operation(max_attempts = n), n >= 1,
\* is invoked until its first success and never more than n times: when the
\* k-th invocation is the first to succeed the wrapper returns its result
\* after exactly k invocations, when all n raise the exception of the n-th
\* is raised, and a delay lies between consecutive attempts only.
C13_RetryUntilFirstSuccess ==
    (ret.op = "retry_operation" /\ ret.args.max_attempts >= 1) =>
        LET n == ret.args.max_attempts
            k == FirstSuccess(ret.args.outcomes, n)
            events == ret.value.events
        IN  /\ Invocations(events) <= n
            /\ k > 0 => /\ ret.value.outcome = Returned(k)
                        /\ Invocations(events) = k
            /\ k = 0 => /\ ret.value.outcome = RaisedWith(n)
                        /\ Invocations(events) = n
            /\ \A i \in DOMAIN events :
                  events[i] = (IF i % 2 = 1 THEN "call" ELSE "sleep")
            /\ events[Len(events)] = "call"

\* C13 witness: with max_attempts = 3 the first two invocations raised and
\* the third returned its result.
C13_Witness ==
    /\ ret.op = "retry_operation"
    /\ ret.args.max_attempts = 3
    /\ ret.value.outcome = Returned(3)
    /\ ret.value.events = <<"call", "sleep", "call", "sleep", "call">>

\* data contains the field: a key of a dict, an element of a list
Contains(data, field) ==
    IF data.type = "dict" THEN field \in DOMAIN data.fields
    ELSE \E i \in DOMAIN data.value : data.value[i] = field

\* C14 as stated: validate_data returns true exactly when data is non-empty
\* and contains every field of required_fields.
C14_ValidateExactly ==
    ret.op = "validate_data" =>
        (ret.value <=>
            /\ ~Falsy(ret.args.data)
            /\ \A i \in DOMAIN ret.args.required_fields :
                  Contains(ret.args.data, ret.args.required_fields[i]))

\* C14 amended: validate_data returns false for None and empty data; for a
\* non-empty dict it returns true exactly when the dict has every field of
\* required_fields; for non-empty data that is no dict it returns true
\* whatever required_fields holds.
C14_ValidateDictExactly ==
    ret.op = "validate_data" =>
        LET data == ret.args.data
            required_fields == ret.args.required_fields
        IN  /\ Falsy(data) => ret.value = FALSE
            /\ (~Falsy(data) /\ data.type = "dict") =>
                  (ret.value <=>
                      \A i \in DOMAIN required_fields :
                          required_fields[i] \in DOMAIN data.fields)
            /\ (~Falsy(data) /\ data.type # "dict") => ret.value = TRUE

\* C14 witness: a dict with one of three required fields was rejected.
C14_Witness ==
    /\ ret.op = "validate_data"
    /\ ret.args.data = DictValue([name |-> "a"])
    /\ ret.args.required_fields = <<"name", "email", "age">>
    /\ ret.value = FALSE

\* the common denominator of a bundle of fractions
BundleSum(scores) == SumValues([k \in DOMAIN scores |-> scores[k].num])

\* a bundle is feasible: no weight is negative, and the weights sum to 1 when
\* the raw signal is positive and are all 0 when it is 0
Feasible(scores, raw) ==
    /\ \A k \in DOMAIN scores : scores[k].den > 0 /\ scores[k].num >= 0
    /\ IF SumValues(raw) > 0
       THEN \E d \in {scores[k].den : k \in DOMAIN scores} :
               /\ \A k \in DOMAIN scores : scores[k].den = d
               /\ BundleSum(scores) = d
       ELSE \A k \in DOMAIN scores : scores[k].num = 0

\* C15: whatever analyze_youtube_emotions is given, each bundle it returns
\* (emotion_scores over positive, negative and neutral; interests over the four
\* categories) has no negative weight and sums to 1 when its own raw signal is
\* positive, and is all 0 when its own raw signal is 0: each bundle is
\* normalized by its own total.
C15_BundlesNormalized ==
    ret.op = "analyze_youtube_emotions" =>
        /\ DOMAIN ret.value.emotion_scores = {"positive", "negative", "neutral"}
        /\ DOMAIN ret.value.interests
               = {"entertainment", "lifestyle", "education", "social"}
        /\ Feasible(ret.value.emotion_scores, RawEmotionScores(ret.args))
        /\ Feasible(ret.value.interests, RawInterests(ret.args))

\* a call where the interests have a signal and the emotion scores have none:
\* the interests sum to 1 while the emotion scores stay 0
C15_Witness ==
    /\ ret.op = "analyze_youtube_emotions"
    /\ SumValues(RawEmotionScores(ret.args)) = 0
    /\ SumValues(RawInterests(ret.args)) > 0
    /\ BundleSum(ret.value.interests) = ret.value.interests.social.den
    /\ \A k \in DOMAIN ret.value.emotion_scores :
          ret.value.emotion_scores[k].num = 0

\* C16: the stress level is a step function of the fatigue index with strict
\* comparisons: high exactly when the index is above 2.0, medium exactly when
\* it is above 1.0 and at most 2.0, low exactly when it is at most 1.0.
C16_StressLevelSteps ==
    ret.op \in {"analyze_calendar_fatigue", "stress_level"} =>
        LET index == ret.value.fatigue_index
            level == ret.value.stress_level
        IN  /\ level \in {"high", "medium", "low"}
            /\ level = "high" <=> index.num > 2 * index.den
            /\ level = "medium" <=> (index.num > index.den
                                      /\ index.num <= 2 * index.den)
            /\ level = "low" <=> index.num <= index.den

\* an index of exactly 2.0 has been decided medium
C16_Witness ==
    /\ ret.op = "stress_level"
    /\ ret.value.fatigue_index.num = 2 * ret.value.fatigue_index.den
    /\ ret.value.stress_level = "medium"

\* the run has no data: no subscription, no liked video and no event
NoData(args) ==
    /\ Get(args.youtube_data, "subscriptions", <<>>) = <<>>
    /\ Get(args.youtube_data, "liked_videos", <<>>) = <<>>
    /\ Get(args.calendar_data, "events", <<>>) = <<>>

\* C17: with empty youtube_data and empty calendar_data,
\* analyze_calendar_fatigue gives fatigue_index 0 and stress_level low, and
\* calculate_overall_emotion puts emotion_state in the neutral (보통) band.
C17_NoDataIsNeutral ==
    (ret.op = "calculate_overall_emotion" /\ NoData(ret.args)) =>
        /\ ret.value.calendar_analysis.fatigue_index.num = 0
        /\ ret.value.calendar_analysis.stress_level = "low"
        /\ ret.value.overall_emotion.emotion_state = "neutral"

\* the score of the i-th record of a history, 0 when it has none
ScoreAt(history, i) ==
    IF "overall_emotion" \in DOMAIN history[i]
    THEN history[i].overall_emotion.emotion_score ELSE 0

\* C18: over a newest-first history of n >= 2 scores, _analyze_trends takes
\* recent_avg as the mean of the newest 2 scores and older_avg as the mean of
\* the other n - 2 (recent_avg itself when n = 2), and labels the trend up when
\* recent_avg > older_avg, down when recent_avg < older_avg and flat when they
\* are equal; 2 records are always flat, and the scores 0.5, 0.3, 0.1 give up.
C18_TrendOfHistory ==
    (ret.op = "_analyze_trends" /\ Len(ret.args) >= 2) =>
        LET n == Len(ret.args)
            recent2 == ScoreAt(ret.args, 1) + ScoreAt(ret.args, 2)
            rest == SumScores([i \in 1..(n - 2) |-> ScoreAt(ret.args, i + 2)])
            trend == ret.value
        IN  /\ trend # NoneValue
            /\ trend.recent_average.num * 2 = recent2 * trend.recent_average.den
            /\ n > 2 => trend.historical_average.num * (n - 2)
                           = rest * trend.historical_average.den
            /\ n = 2 => trend.historical_average = trend.recent_average
            /\ n = 2 => trend.emotion_trend = "flat"
            /\ n > 2 =>
                  /\ trend.emotion_trend = "up" <=> recent2 * (n - 2) > rest * 2
                  /\ trend.emotion_trend = "down" <=> recent2 * (n - 2) < rest * 2
                  /\ trend.emotion_trend = "flat" <=> recent2 * (n - 2) = rest * 2
            /\ (n = 3 /\ ScoreAt(ret.args, 1) = 5 /\ ScoreAt(ret.args, 2) = 3
                  /\ ScoreAt(ret.args, 3) = 1) => trend.emotion_trend = "up"

\* the trend of the scores 0.5, 0.3, 0.1 has been computed: 0.4 against 0.1
C18_Witness ==
    /\ ret.op = "_analyze_trends"
    /\ Len(ret.args) = 3
    /\ ScoreAt(ret.args, 1) = 5 /\ ScoreAt(ret.args, 2) = 3
    /\ ScoreAt(ret.args, 3) = 1
    /\ ret.value.recent_average = Fraction(8, 2)
    /\ ret.value.historical_average = Fraction(1, 1)
    /\ ret.value.emotion_trend = "up"

\* C19: the runs share no mutable state: the report a run returns is the one
\* it would return had no other run executed in the process.  Every request
\* to /analyze runs on an instance of its own, so the report of such a run is
\* the report of the first monitored run of a process over the same working
\* set.
C19_ReportIndependentOfOtherRuns ==
    (pc = "returned" /\ caller = "api" /\ report.success) =>
        report = FinalResult(sys_user, report.timestamp, results,
                             system_health, 1)

\* the stages taken so far are the first stages of the list, in its order, and
\* the stage the run is at is the one after them
StagesInOrder ==
    /\ Len(stage_log) <= Len(StageNames)
    /\ \A i \in DOMAIN stage_log : stage_log[i].stage = StageNames[i]
    /\ pc \in {StageNames[i] : i \in DOMAIN StageNames} =>
           pc = StageNames[Len(stage_log) + 1]

\* the persist stage has been started
PersistStarted ==
    pc = "firebase_save" \/ \E i \in DOMAIN stage_log : stage_log[i].stage = "firebase_save"

\* C20: within one run the stages execute strictly in the order collect,
\* score, persist, fetch-history, aggregate-trend, build-feedback, each started
\* at most once and only after the previous one has finished, and the persist
\* stage is never started unless the collection and the scoring both completed
\* successfully.
C20_StagesInOrderPersistGuarded ==
    /\ StagesInOrder
    /\ PersistStarted =>
           /\ stage_log[1].success /\ stage_log[2].success
           /\ logged_errors \cap {"data_collection_failed",
                                  "emotion_analysis_failed"} = {}

\* C21: the overall emotion score and state that a run reports for the scoring
\* stage, and hands to the persistence and the feedback, are the fusion of the
\* analyses of the collected data: the score is positive - negative -
\* stress_impact and the state is the band of that score.
C21_ReportedEmotionIsFusion ==
    (/\ analysis_result # NoneValue
     /\ "youtube_analysis" \in DOMAIN analysis_result) =>
        LET fused == CalculateOverallEmotion(analysis_result.youtube_analysis,
                                             analysis_result.calendar_analysis)
        IN  /\ analysis_result.emotion_state = fused.emotion_state
            /\ analysis_result.overall_emotion.float * fused.emotion_score.den
                   = 10 * fused.emotion_score.num

\* C22: every run that returns a success report has created a record for its
\* user in the document store: the persistence stage of the run succeeded and
\* the history of the user holds a record.
C22_SuccessfulRunHasSaved ==
    (pc = "returned" /\ report.success) =>
        /\ report.stages["firebase_save"].success
        /\ DOMAIN fb_docs[sys_user] # {}

\* C23: when the history of the user holds fewer than 2 records, the trend
\* step is skipped: it yields no trend information (no direction, no average)
\* and is not an error.  For the trend stage of a run: its entry in the stages
\* map is successful and carries no trend_data; for _analyze_trends: no
\* trend_analysis is added.
C23_ShortHistorySkipsTrend ==
    /\ ("trend_analysis" \in DOMAIN results /\ Len(history_data) < 2) =>
           /\ results["trend_analysis"].success
           /\ "trend_data" \notin DOMAIN results["trend_analysis"]
    /\ (ret # NoCall /\ ret.op = "_analyze_trends" /\ Len(ret.args) < 2) =>
           ret.value = NoneValue

\* the terms of the fatigue index of an event list, counted from the events
EventDates(events) == {events[i].start_date : i \in DOMAIN events}
EventsOn(events, d) == Cardinality({i \in DOMAIN events : events[i].start_date = d})
TimedEvents(events) == {i \in DOMAIN events : events[i].start_time # AllDay}
NightEvents(events) ==
    {i \in TimedEvents(events) : events[i].start_time >= 22 \/ events[i].start_time < 6}

C25_OverallEmotionBands ==
    (ret # NoCall /\ ret.op \in {"overall_emotion", "calculate_overall_emotion"}) =>
        LET positive == ret.value.youtube_analysis.emotion_scores.positive
            negative == ret.value.youtube_analysis.emotion_scores.negative
            stress == ret.value.calendar_analysis.stress_level
            impact == IF stress = "low" THEN 1 ELSE IF stress = "medium" THEN 3 ELSE 5
            score == ret.value.overall_emotion.emotion_score
            state == ret.value.overall_emotion.emotion_state
        IN  /\ positive.den = negative.den
            /\ score.den = 10 * positive.den
            /\ score.num = 10 * (positive.num - negative.num) - impact * positive.den
            /\ state = "very_positive" <=> 10 * score.num > 3 * score.den
            /\ state = "positive" <=> (10 * score.num > score.den
                                       /\ 10 * score.num <= 3 * score.den)
            /\ state = "neutral" <=> (10 * score.num > -score.den
                                      /\ 10 * score.num <= score.den)
            /\ state = "somewhat_negative" <=> (10 * score.num > -3 * score.den
                                                /\ 10 * score.num <= -score.den)
            /\ state = "negative" <=> 10 * score.num <= -3 * score.den
            /\ 10 * score.num >= -15 * score.den
            /\ 10 * score.num <= 9 * score.den

\* under medium stress a score of exactly 0.3 has been put into the positive
\* band
C25_Witness ==
    /\ ret # NoCall /\ ret.op = "overall_emotion"
    /\ ret.value.calendar_analysis.stress_level = "medium"
    /\ 10 * ret.value.overall_emotion.emotion_score.num
           = 3 * ret.value.overall_emotion.emotion_score.den
    /\ ret.value.overall_emotion.emotion_state = "positive"

\* the calls made on the YouTube collector and on the Calendar collector
YoutubeCalls == {"youtube.connect", "youtube.get_subscriptions",
                 "youtube.get_liked_videos"}
CalendarCalls == {"calendar.connect", "calendar.get_recent_events",
                  "calendar.analyze_schedule_density"}

\* C26: collect_all_data finishes the YouTube collection before it starts the
\* Calendar collection, attempts the Calendar collection also when the YouTube
\* connect fails, and sets analysis_ready to true exactly when the YouTube
\* connect and the Calendar connect both succeeded.
C26_CollectSequentialAndReady ==
    (ret # NoCall /\ ret.op = "collect_all_data") =>
        LET calls == ret.value.calls
            ready == ~ret.value.outcome.raised
                     /\ ret.value.outcome.value.analysis_ready
            connected(c, ok) == ok /\ \E i \in DOMAIN calls : calls[i] = c
        IN  /\ \A i, j \in DOMAIN calls :
                  (calls[i] \in YoutubeCalls /\ calls[j] \in CalendarCalls) => i < j
            /\ ~ret.args.yt_connect =>
                  \E i \in DOMAIN calls : calls[i] = "calendar.connect"
            /\ ready <=> (connected("youtube.connect", ret.args.yt_connect)
                          /\ connected("calendar.connect", ret.args.cal_connect))

\* the YouTube connect failed, the Calendar collection ran all the same, and
\* analysis_ready is false
C26_Witness ==
    /\ ret # NoCall /\ ret.op = "collect_all_data"
    /\ ~ret.args.yt_connect /\ ret.args.cal_connect
    /\ ret.value.calls = <<"youtube.connect", "calendar.connect",
                           "calendar.get_recent_events",
                           "calendar.analyze_schedule_density">>
    /\ ~ret.value.outcome.raised
    /\ ~ret.value.outcome.value.analysis_ready

\* a step in which a run returns its report
RunReturns == pc # "returned" /\ pc' = "returned"

\* C27: over the runs on one instance, consecutive_failures is the number of
\* runs that returned a failure report since the last run that returned a
\* success report: a run that returns success sets it to 0, a run that returns
\* failure adds 1, and nothing else changes it; last_successful_run changes
\* only in a run that returns success.  (A request to /analyze has an instance
\* of its own, which starts from the health of __init__ and is dropped with the
\* response.)
C27_HealthCountsFailures ==
    [][LET before == IF caller = "api" /\ pc = "idle" THEN FreshHealth
                     ELSE system_health
       IN  /\ (RunReturns /\ report'.success) =>
                  system_health'.consecutive_failures = 0
           /\ (RunReturns /\ ~report'.success) =>
                  /\ system_health'.consecutive_failures
                         = before.consecutive_failures + 1
                  /\ system_health'.last_successful_run
                         = before.last_successful_run
           /\ (~RunReturns /\ caller = "main") => system_health' = system_health]_vars

\* two runs on one instance have failed one after the other
C27_Witness ==
    /\ pc = "returned" /\ caller = "main"
    /\ ~report.success
    /\ system_health.consecutive_failures = 2

\* C28: within the stored history of one user no two distinct records share
\* an analysis_id, whatever saves succeeded, two saves within one clock second
\* included: in the remote adapter every document carries the id it is stored
\* under, and in the local file the entries of a user have pairwise different
\* ids.
C28_AnalysisIdUnique ==
    /\ \A u \in Users : \A id \in DOMAIN fb_docs[u] :
           fb_docs[u][id].analysis_id = id
    /\ \A u \in DOMAIN mock_data : \A i, j \in DOMAIN mock_data[u] :
           i # j => mock_data[u][i].analysis_id # mock_data[u][j].analysis_id

\* ------------------------------------------------------ PerformanceMonitor
\* max_history_size of the monitor, and the number of operations started
MaxHistorySize == 2
MaxOperations == 3

\* the functions wrapped by monitor_performance
FunctionNames == {"run_complete_analysis"}

\* f"{function_name}_{datetime.now().timestamp()}": the name and the reading
\* of the clock
OperationId(function_name, t) == <<function_name, t>>

\* deque(maxlen = max_history_size).append: a full deque drops its oldest
\* entry
DequeAppend(history, metric) ==
    IF Len(history) >= MaxHistorySize
    THEN Append(Tail(history), metric)
    ELSE Append(history, metric)

\* PerformanceMonitor.end_operation: nothing for an id that is not in
\* current_metrics; otherwise the metric gets its end time and the error, goes
\* to the history and leaves current_metrics.  error is "" for an error that
\* `if error` passes over (None or the empty string).
EndOperation(operation_id, error) ==
    IF operation_id \notin DOMAIN current_metrics
    THEN [current_metrics |-> current_metrics, metrics_history |-> metrics_history]
    ELSE LET started == current_metrics[operation_id]
             metric == [started EXCEPT !.end_time = now,
                                       !.errors = IF error = "" THEN <<>>
                                                  ELSE <<error>>]
         IN  [current_metrics |->
                  [id \in DOMAIN current_metrics \ {operation_id} |->
                      current_metrics[id]],
              metrics_history |-> DequeAppend(metrics_history, metric)]

\* the wrapper calls start_operation(func.__name__): the metric is stored
\* under the operation id, replacing a metric that has this id.  object is the
\* rank of the start, standing for the identity of the PerformanceMetric.
WrapperStart(function_name) ==
    /\ total_operations < MaxOperations
    /\ LET operation_id == OperationId(function_name, now)
           metric == [start_time |-> now, function_name |-> function_name,
                      end_time |-> NoTime, errors |-> <<>>,
                      object |-> total_operations + 1]
       IN  /\ current_metrics' = (operation_id :> metric) @@ current_metrics
           /\ wrappers' = Append(wrappers, [operation_id |-> operation_id,
                                             ended |-> FALSE])
    /\ total_operations' = total_operations + 1
    /\ UNCHANGED <<metrics_history>>
    /\ UNCHANGED <<store_vars, run_vars>>

\* the wrapped function of call k returns or raises, and the wrapper calls
\* end_operation(operation_id) or end_operation(operation_id, str(e))
WrapperEnd(k, raised) ==
    /\ k \in DOMAIN wrappers
    /\ ~wrappers[k].ended
    /\ LET e == EndOperation(wrappers[k].operation_id,
                             IF raised THEN "error" ELSE "")
       IN  /\ current_metrics' = e.current_metrics
           /\ metrics_history' = e.metrics_history
    /\ wrappers' = [wrappers EXCEPT ![k].ended = TRUE]
    /\ UNCHANGED <<total_operations>>
    /\ UNCHANGED <<store_vars, run_vars>>

\* the ids a caller can pass to end_operation
OperationIds == {OperationId(f, t) : f \in FunctionNames, t \in 0..MaxTime}

\* a caller other than the wrappers calls end_operation with an id no
\* running wrapper holds: one never issued, or one whose operation has ended
EndOperationCall(operation_id) ==
    /\ \A k \in DOMAIN wrappers :
          wrappers[k].operation_id = operation_id => wrappers[k].ended
    /\ LET e == EndOperation(operation_id, "")
       IN  /\ current_metrics' = e.current_metrics
           /\ metrics_history' = e.metrics_history
    /\ ret' = [op |-> "end_operation", args |-> operation_id]
    /\ UNCHANGED <<total_operations, wrappers>>
    /\ UNCHANGED <<now, mgr_kind, initialized, fb_docs, mock_exists, mock_data>>
    /\ UNCHANGED run_vars

MonitorInit ==
    /\ now = 0
    /\ mgr_kind = "FirebaseManager"
    /\ initialized = FALSE
    /\ fb_docs = [u \in Users |-> EmptyDict]
    /\ mock_exists = FALSE
    /\ mock_data = EmptyDict
    /\ ret = NoCall
    /\ InstanceInit
    /\ NewMonitor
    /\ caller = "main"
    /\ emotion_system = FALSE

MonitorNext ==
    \/ Tick
    \/ \E function_name \in FunctionNames : WrapperStart(function_name)
    \/ \E k \in 1..MaxOperations, raised \in BOOLEAN : WrapperEnd(k, raised)
    \/ \E operation_id \in OperationIds : EndOperationCall(operation_id)

MonitorSpec == MonitorInit /\ [][MonitorNext]_vars

\* the metrics of the history and of current_metrics that belong to call k
InHistory(k) == {i \in DOMAIN metrics_history : metrics_history[i].object = k}
InCurrent(k) == {id \in DOMAIN current_metrics : current_metrics[id].object = k}

\* the bookkeeping of the started operations
Bookkeeping ==
    /\ Len(metrics_history) <= MaxHistorySize
    /\ \A k \in DOMAIN wrappers :
          IF wrappers[k].ended
          THEN /\ InCurrent(k) = {}
               /\ Cardinality(InHistory(k)) <= 1
               /\ InHistory(k) = {} =>
                      \E j \in DOMAIN wrappers :
                          j # k /\ wrappers[j].ended /\ InHistory(j) # {}
                          /\ Len(metrics_history) = MaxHistorySize
          ELSE /\ InCurrent(k) = {wrappers[k].operation_id}
               /\ InHistory(k) = {}

\* C29: for any interleaving of start_operation and end_operation calls, those
\* of the monitor_performance wrapper on return and on exception included,
\* each started operation is in current_metrics from its start until its end
\* and goes to metrics_history once when it ends (from where only a full deque
\* drops it); an end_operation with an unknown or already-ended id changes no
\* state; and metrics_history never holds more than max_history_size entries.
C29_MonitorBookkeeping ==
    [][/\ Bookkeeping'
       /\ (ret' # ret /\ ret'.op = "end_operation") =>
              UNCHANGED <<current_metrics, metrics_history, total_operations>>
      ]_vars

\* the token file holds a token that is valid and not expiring within 5 minutes
FreshToken ==
    LET f == ret.args.token_file
    IN  f.exists /\ f.readable /\ f.valid /\ (~f.has_expiry \/ f.minutes_left >= 5)

\* the token file holds an expired token with a refresh token
RefreshableToken ==
    LET f == ret.args.token_file
    IN  f.exists /\ f.readable /\ f.expired /\ f.refresh_token

\* login returns credentials with auth_failures 0, last_auth_time set to the
\* clock and a token file on disk, or raises DataCollectionError with
\* auth_failures one higher
LoginTwoOutcomes ==
    \/ /\ ~ret.value.raised
       /\ ret.value.did.source \in {"existing", "refreshed", "new"}
       /\ ret.value.auth_failures = 0
       /\ ret.value.last_auth_time = now
       /\ ret.value.did.token_exists
    \/ /\ ret.value.raised
       /\ ret.value.error = "DataCollectionError"
       /\ ret.value.auth_failures = ret.args.auth_failures + 1

\* the existing token is returned, with no refresh, write or interactive flow,
\* exactly when it is valid and not expiring within 5 minutes
LoginReusesFreshOnly ==
    /\ FreshToken <=> (~ret.value.raised /\ ret.value.did.source = "existing")
    /\ FreshToken => (~ret.value.did.interactive /\ ~ret.value.did.refresh_called
                      /\ ~ret.value.did.written)
    /\ ~FreshToken => (ret.value.did.interactive \/ ret.value.did.refresh_called
                       \/ ret.value.raised)

\* C30 as stated: login has the two outcomes, reuses the token only when it is
\* valid and not expiring within 5 minutes, and an expired token with a refresh
\* token is refreshed and rewritten without an interactive flow.
C30_LoginRefreshesExpired ==
    (ret # NoCall /\ ret.op = "login") =>
        /\ LoginTwoOutcomes
        /\ LoginReusesFreshOnly
        /\ RefreshableToken =>
              /\ ~ret.value.raised /\ ret.value.did.source = "refreshed"
              /\ ret.value.did.written /\ ~ret.value.did.interactive

\* C30: login has the two outcomes and reuses the token only when it is valid
\* and not expiring within 5 minutes; an expired token with a refresh token is
\* refreshed, and when the refresh and the write of the token file succeed it
\* is returned without an interactive flow; when one of them fails the token
\* file is removed and the interactive flow decides the outcome.
C30_LoginOutcomes ==
    (ret # NoCall /\ ret.op = "login") =>
        /\ LoginTwoOutcomes
        /\ LoginReusesFreshOnly
        /\ RefreshableToken =>
              /\ ret.value.did.refresh_called
              /\ IF ret.args.env.refresh_ok /\ ret.args.env.refresh_write_ok
                 THEN /\ ~ret.value.raised /\ ret.value.did.source = "refreshed"
                      /\ ret.value.did.written /\ ~ret.value.did.interactive
                 ELSE IF ret.args.env.remove_ok
                 THEN /\ ret.value.did.interactive
                      /\ ret.value.raised \/ ret.value.did.source = "new"
                 ELSE ret.value.raised /\ ~ret.value.did.interactive

\* an authenticator with two failures refreshes an expired token and returns
\* it: no interactive flow, the file rewritten, auth_failures back to 0
C30_Witness ==
    /\ ret # NoCall /\ ret.op = "login"
    /\ RefreshableToken
    /\ ret.args.auth_failures = 2
    /\ ~ret.value.raised /\ ret.value.did.source = "refreshed"
    /\ ret.value.did.written /\ ~ret.value.did.interactive
    /\ ret.value.auth_failures = 0 /\ ret.value.last_auth_time = now

====
